---- MODULE Spec2Model ----
(***************************************************************************)
(* The OpenGuardrails connector for Higress (og-connector-higress): one    *)
(* OGConnector per client exchange, driven by the gateway's callbacks      *)
(* (request headers, request body, moderation-call completion, response    *)
(* headers, response body).                                                *)
(*                                                                         *)
(* Byte strings are records [kind, ws, txt, doc]: kind is "empty", "text"  *)
(* (not JSON) or "json"; ws tells a JSON text in serde_json's compact      *)
(* output form ("compact") from any other formatting of the same value     *)
(* ("spaced"); doc is the parsed JSON object, reduced to the paths the     *)
(* connector reads or writes.  Parsing forgets ws, serialising always      *)
(* yields "compact", so a parse/serialise round trip is not the identity.  *)
(* An Option is a sequence: <<>> is None, <<x>> is Some(x).                *)
(***************************************************************************)
EXTENDS Integers, Sequences, FiniteSets, TLC

\* Non-final body chunks the host delivers per direction before end_of_stream
\* (req_chunks and resp_chunks count them, and start again at end_of_stream).
MaxChunks == 1
\* Callbacks the host delivers to one exchange when it keeps no order (SpecAny).
MaxCallbacks == 4

None == <<>>

Some(x) == <<x>>

IsSome(o) == o # <<>>

Get(o) == o[1]

---------------------------------------------------------------------------
\* JSON documents and byte strings

Absent == "absent"

\* doc.content stands for the path choices[0].message.content: a string, or
\* the place where the path breaks.
NoChoices == "#no-choices"

NoMessage == "#no-message"

NoContent == "#no-content"

NonString == "#non-string"

ContentBreaks == {NoChoices, NoMessage, NoContent, NonString}

NoDoc == [messages |-> Absent, model |-> Absent, stream |-> Absent, content |-> NoChoices, extra |-> Absent]

Empty == [kind |-> "empty", ws |-> "none", txt |-> "", doc |-> NoDoc]

Text(t) == [kind |-> "text", ws |-> "none", txt |-> t, doc |-> NoDoc]

Json(ws, doc) == [kind |-> "json", ws |-> ws, txt |-> "", doc |-> doc]

is_empty(b) == b.kind = "empty"

\* serde_json::from_slice::<serde_json::Value>(body).ok()
from_slice(b) == IF b.kind = "json" THEN Some(b.doc) ELSE None

\* serde_json::to_vec(&json): the compact form
to_vec(doc) == Json("compact", doc)

\* The host's get_http_request_body / get_http_response_body /
\* get_http_call_response_body: None when the buffer holds no bytes.
get_buffer(b) == IF is_empty(b) THEN None ELSE Some(b)

---------------------------------------------------------------------------
\* Pure helpers of OGConnector

\* A faulty variant of parse_messages: any value under "messages" is taken.
parse_messages_of_any_type(body) ==
  LET j == from_slice(body) IN
  IF j = None THEN None
  ELSE IF Get(j).messages = Absent THEN None
  ELSE Some(Get(j).messages)

\* json.get("messages")?.as_array().cloned()
parse_messages(body) ==
  LET j == from_slice(body) IN
  IF j = None THEN None
  ELSE IF Get(j).messages \in {Absent, "#non-array"} THEN None
  ELSE Some(Get(j).messages)

check_streaming(body) ==
  LET j == from_slice(body) IN
  IF j = None THEN FALSE ELSE Get(j).stream = "true"

\* choices[0].message.content as a string
ContentOf(doc) == IF doc.content \in ContentBreaks THEN None ELSE Some(doc.content)

\* message["content"] = new_content, where choices[0].message exists
SetContent(doc, new_content) ==
  IF doc.content \in {NoChoices, NoMessage} THEN doc
  ELSE [doc EXCEPT !.content = new_content]

extract_content_from_body(body) ==
  LET j == from_slice(body) IN
  IF j = None THEN None ELSE ContentOf(Get(j))

rebuild_proxy_response_body(original_body, new_content) ==
  LET j == from_slice(original_body) IN
  IF j = None THEN original_body ELSE to_vec(SetContent(Get(j), new_content))

\* A faulty variant of rebuild_request_body: the whole document is replaced.
rebuild_request_body_dropping(request_body, messages) ==
  IF from_slice(request_body) = None THEN request_body
  ELSE to_vec([NoDoc EXCEPT !.messages = messages])

rebuild_request_body(request_body, messages) ==
  LET j == from_slice(request_body) IN
  IF j = None THEN request_body
  ELSE to_vec([Get(j) EXCEPT !.messages = messages])

\* A faulty variant of rebuild_response_body: only the new content is kept.
rebuild_response_body_bare(response_body, new_content) ==
  IF from_slice(response_body) = None THEN response_body
  ELSE to_vec([NoDoc EXCEPT !.content = new_content])

rebuild_response_body(response_body, new_content) ==
  LET j == from_slice(response_body) IN
  IF j = None THEN response_body ELSE to_vec(SetContent(Get(j), new_content))

extract_response_content(response_body) == extract_content_from_body(response_body)

\* OGInputRequest, serialised: application_id is left out when empty.
build_input_request(config, messages) ==
  [messages |-> messages,
   application_id |-> IF config.application_id = "" THEN None ELSE Some(config.application_id)]

\* OGOutputRequest, serialised: every None field is left out.
build_output_request(s, content) ==
  [content |-> content,
   session_id |-> s.session_id,
   restore_mapping |-> s.restore_mapping,
   application_id |-> IF Get(s.config).application_id = "" THEN None
                      ELSE Some(Get(s.config).application_id),
   messages |-> s.input_messages]

---------------------------------------------------------------------------
\* The verdict decoder (serde Deserialize of the lib.rs types).  A call
\* response body w is a record: json says whether the bytes are a JSON object
\* with an action string; request_id and, inside private_model, api_base_url
\* say whether that required field is present; the Option fields are the
\* optional ones.

\* OGInputResponse: action and request_id are required, and so are
\* api_base_url and model_name of a private_model that is present.
DecodeInput(w) ==
  IF w.json /\ w.request_id
     /\ (IsSome(w.private_model) => Get(w.private_model).api_base_url)
  THEN Some(w) ELSE None

\* OGOutputResponse: only action is required.
DecodeOutput(w) == IF w.json THEN Some(w) ELSE None

---------------------------------------------------------------------------
\* Header names.  The host compares header names without regard to case:
\* HeaderKey gives the lower-case key of each name the connector or a
\* verdict uses.

HeaderKey(name) ==
  CASE name = "X-OG-Bypass-Token" -> "x-og-bypass-token"
    [] name = "X-Mse-Consumer" -> "x-mse-consumer"
    [] name = "X-Custom-Bypass" -> "x-custom-bypass"
    [] name = "Authorization" -> "authorization"
    [] OTHER -> name

HeaderKeys == {"x-og-bypass-token", "x-mse-consumer", "x-custom-bypass", "authorization",
               "x-higress-llm-provider", "x-higress-llm-model", "content-length"}

---------------------------------------------------------------------------
\* Host calls.  s is the exchange: the OGConnector fields, the host's side of
\* the exchange (its header map, buffered bodies, route property, what went
\* upstream, what went to the client, the moderation call in flight) and the
\* trace of the current callback (effects: the host calls made that change
\* something; ret: the value returned).

Eff(s, op, arg) == [s EXCEPT !.effects = Append(@, [op |-> op, arg |-> arg])]

get_http_request_header(s, name) ==
  IF s.req_headers[HeaderKey(name)] = Absent THEN None
  ELSE Some(s.req_headers[HeaderKey(name)])

\* value: Some(v) sets the header, None removes it.
set_http_request_header(s, name, value) ==
  Eff([s EXCEPT !.req_headers[HeaderKey(name)] = IF value = None THEN Absent ELSE Get(value)],
      "set_http_request_header", HeaderKey(name))

set_http_response_header(s, name, value) ==
  Eff([s EXCEPT !.resp_content_length = IF name = "content-length" THEN IsSome(value) ELSE @],
      "set_http_response_header", HeaderKey(name))

set_property(s, value) == Eff([s EXCEPT !.cluster_name = value], "set_property", "cluster_name")

\* set_http_request_body(0, i32::MAX, body): the whole buffered body is replaced.
set_http_request_body(s, body) == Eff([s EXCEPT !.host_req_body = body], "set_http_request_body", "")

set_http_response_body(s, body) == Eff([s EXCEPT !.host_resp_body = body], "set_http_response_body", "")

send_http_response(s, status_code, content_type, body) ==
  Eff([s EXCEPT !.client_responses =
         Append(@, [src |-> "local", code |-> status_code, content_type |-> content_type, body |-> body])],
      "send_http_response", "")

\* The request goes upstream with the host's buffered body (once).
Forward(s) == IF s.upstream_body = None THEN [s EXCEPT !.upstream_body = Some(s.host_req_body)] ELSE s

\* The upstream response goes to the client with the host's buffered body.
Deliver(s) ==
  [s EXCEPT !.client_responses =
     Append(@, [src |-> "upstream", code |-> 0, content_type |-> "", body |-> s.host_resp_body])]

resume_http_request(s) == Eff(Forward(s), "resume_http_request", "")

resume_http_response(s) == Eff(Deliver(s), "resume_http_response", "")

\* call_og_api: Err without a configuration or when the host refuses the
\* dispatch (ok = FALSE), else the call is in flight.
CallOk(s, ok) == IsSome(s.config) /\ ok

call_og_api(s, path, body, ok) ==
  IF s.config = None THEN s
  ELSE IF ~ok THEN Eff(s, "dispatch_http_call", "Err")
  ELSE Eff([s EXCEPT !.call = Some([path |-> path, body |-> body,
                                    app_id_header |-> s.consumer_id,
                                    cluster |-> Get(s.config).og_cluster]),
                     !.n_calls[path] = @ + 1],
           "dispatch_http_call", path)

InputPath == "/v1/gateway/process-input"

OutputPath == "/v1/gateway/process-output"

Ret(s, action) == [s EXCEPT !.ret = action]

---------------------------------------------------------------------------
\* OGConnector methods

\* A faulty variant of send_local_response: the buffered request body is not cleared.
send_local_response_keeping_body(s, status_code, content_type, body) ==
  send_http_response([s EXCEPT !.response_sent = TRUE, !.state = "Done"], status_code, content_type, body)

\* A faulty variant of send_local_response: the response is sent before the body is cleared.
send_local_response_sending_first(s, status_code, content_type, body) ==
  LET s1 == [s EXCEPT !.response_sent = TRUE, !.state = "Done"]
      s2 == send_http_response(s1, status_code, content_type, body)
  IN  set_http_request_body(s2, Empty)

send_local_response(s, status_code, content_type, body) ==
  LET s1 == [s EXCEPT !.response_sent = TRUE, !.state = "Done"]
      s2 == set_http_request_body(s1, Empty)
  IN  send_http_response(s2, status_code, content_type, body)

SendResp(s, r) == send_local_response(s, r.code, r.content_type, r.body)

\* A faulty variant of InputLocal: a verdict without its response lets the request through.
InputLocal_failing_open(s, resp) ==
  IF IsSome(resp) THEN Ret(SendResp(s, Get(resp)), "Pause")
  ELSE Ret(resume_http_request([s EXCEPT !.state = "Initial"]), "Continue")

\* handle_input_response, action "block" / "replace"
InputLocal(s, resp) ==
  Ret(IF IsSome(resp) THEN SendResp(s, Get(resp)) ELSE [s EXCEPT !.state = "Done"], "Pause")

\* handle_input_response, action "anonymize"
InputAnonymize(s, r) ==
  LET s1 == [s EXCEPT !.state = "Initial"]
      s2 == IF IsSome(r.anonymized_messages)
            THEN set_http_request_body(s1, rebuild_request_body(s1.request_body, Get(r.anonymized_messages)))
            ELSE s1
  IN  Ret(resume_http_request(s2), "Continue")

\* A faulty variant of InputProxy: enable_output_detection is not consulted.
InputProxy_always_checking(s, r, ok) ==
  IF r.proxy_response = None THEN Ret([s EXCEPT !.state = "Done"], "Pause")
  ELSE
    LET proxy_resp == Get(r.proxy_response)
        content == extract_content_from_body(proxy_resp.body)
    IN  IF IsSome(content)
        THEN LET s1 == [s EXCEPT !.pending_proxy_response = Some(proxy_resp)]
                 s2 == call_og_api(s1, OutputPath, build_output_request(s1, Get(content)), ok)
             IN  IF CallOk(s1, ok)
                 THEN Ret([s2 EXCEPT !.state = "WaitingOutputResponse"], "Pause")
                 ELSE Ret(send_local_response([s2 EXCEPT !.pending_proxy_response = None],
                                              proxy_resp.code, proxy_resp.content_type, proxy_resp.body), "Pause")
        ELSE Ret(send_local_response(s, proxy_resp.code, proxy_resp.content_type, proxy_resp.body), "Pause")

\* A faulty variant of InputProxy: the alternate response is relayed at once, unchecked.
InputProxy_relaying(s, r, ok) ==
  IF r.proxy_response = None THEN Ret([s EXCEPT !.state = "Done"], "Pause")
  ELSE Ret(send_local_response(s, Get(r.proxy_response).code, Get(r.proxy_response).content_type,
                               Get(r.proxy_response).body), "Pause")

\* A faulty variant of InputProxy: a refused dispatch leaves the exchange waiting.
InputProxy_waiting_after_error(s, r, ok) ==
  IF r.proxy_response = None THEN Ret([s EXCEPT !.state = "Done"], "Pause")
  ELSE
    LET proxy_resp == Get(r.proxy_response)
        content == extract_content_from_body(proxy_resp.body)
    IN  IF Get(s.config).enable_output_detection /\ IsSome(content)
        THEN LET s1 == [s EXCEPT !.pending_proxy_response = Some(proxy_resp)]
                 s2 == call_og_api(s1, OutputPath, build_output_request(s1, Get(content)), ok)
             IN  Ret([s2 EXCEPT !.state = "WaitingOutputResponse"], "Pause")
        ELSE Ret(SendResp(s, proxy_resp), "Pause")

\* handle_input_response, action "proxy_response"
InputProxy(s, r, ok) ==
  IF r.proxy_response = None THEN Ret([s EXCEPT !.state = "Done"], "Pause")
  ELSE
    LET proxy_resp == Get(r.proxy_response)
        content == extract_content_from_body(proxy_resp.body)
    IN  IF Get(s.config).enable_output_detection /\ IsSome(content)
        THEN LET s1 == [s EXCEPT !.pending_proxy_response = Some(proxy_resp)]
                 s2 == call_og_api(s1, OutputPath, build_output_request(s1, Get(content)), ok)
             IN  IF CallOk(s1, ok)
                 THEN Ret([s2 EXCEPT !.state = "WaitingOutputResponse"], "Pause")
                 ELSE Ret(SendResp([s2 EXCEPT !.pending_proxy_response = None], proxy_resp), "Pause")
        ELSE Ret(SendResp(s, proxy_resp), "Pause")

\* The request header edits of a "switch_private_model" verdict, in the order
\* handle_input_response makes them: <<name, value>> each.
SwitchHeaderEdits(r) ==
  LET pm == Get(r.private_model) IN
  (IF IsSome(r.bypass_token)
   THEN <<<<IF IsSome(r.bypass_header) THEN Get(r.bypass_header) ELSE "X-OG-Bypass-Token", Get(r.bypass_token)>>>>
   ELSE <<>>)
  \o (IF IsSome(r.private_model)
      THEN (IF IsSome(pm.api_key) THEN <<<<"authorization", "Bearer " \o Get(pm.api_key)>>>> ELSE <<>>)
           \o (IF IsSome(pm.provider) THEN <<<<"x-higress-llm-provider", Get(pm.provider)>>>> ELSE <<>>)
           \o <<<<"x-higress-llm-model", pm.model_name>>>>
      ELSE <<>>)

\* handle_input_response, action "switch_private_model"
InputSwitch(s, r) ==
  LET s1 == IF IsSome(r.bypass_token)
            THEN set_http_request_header(s,
                   IF IsSome(r.bypass_header) THEN Get(r.bypass_header) ELSE "X-OG-Bypass-Token",
                   r.bypass_token)
            ELSE s
      pm == Get(r.private_model)
      s2 == IF IsSome(pm.api_key)
            THEN set_http_request_header(s1, "authorization", Some("Bearer " \o Get(pm.api_key)))
            ELSE s1
      s3 == IF IsSome(pm.provider)
            THEN set_http_request_header(s2, "x-higress-llm-provider", pm.provider)
            ELSE s2
      s4 == set_http_request_header(s3, "x-higress-llm-model", Some(pm.model_name))
      s5 == IF IsSome(pm.higress_cluster) THEN set_property(s4, Get(pm.higress_cluster)) ELSE s4
      j  == from_slice(s5.request_body)
      s6 == IF ~is_empty(s5.request_body) /\ IsSome(j)
            THEN set_http_request_body(s5, to_vec([Get(j) EXCEPT !.model = pm.model_name]))
            ELSE s5
      s7 == IF IsSome(r.private_model) THEN s6 ELSE s1
  IN  Ret(resume_http_request([s7 EXCEPT !.state = "Initial"]), "Continue")

\* A faulty variant of InputPass: the body is parsed and written back before the resume.
InputPass_reserialising(s) ==
  LET j  == from_slice(s.request_body)
      s1 == IF IsSome(j) THEN set_http_request_body(s, to_vec(Get(j))) ELSE s
  IN  Ret(resume_http_request([s1 EXCEPT !.state = "Initial"]), "Continue")

\* handle_input_response, any other action ("pass")
InputPass(s) == Ret(resume_http_request([s EXCEPT !.state = "Initial"]), "Continue")

\* A faulty variant of handle_input_response: an action that is not known ends the exchange.
handle_input_response_rejecting_unknown(s, body, ok) ==
  LET response == DecodeInput(body) IN
  IF response = None THEN Ret(resume_http_request(s), "Continue")
  ELSE
    LET r  == Get(response)
        s1 == [s EXCEPT !.session_id = r.session_id, !.restore_mapping = r.restore_mapping]
    IN  CASE r.action = "block" -> InputLocal(s1, r.block_response)
          [] r.action = "replace" -> InputLocal(s1, r.replace_response)
          [] r.action = "anonymize" -> InputAnonymize(s1, r)
          [] r.action = "proxy_response" -> InputProxy(s1, r, ok)
          [] r.action = "switch_private_model" -> InputSwitch(s1, r)
          [] r.action = "pass" -> InputPass(s1)
          [] OTHER -> Ret([s1 EXCEPT !.state = "Done"], "Pause")

\* A faulty variant of handle_input_response: a body that does not decode
\* makes the buffered request body be written back before the resume.
handle_input_response_rewriting_on_error(s, body, ok) ==
  LET response == DecodeInput(body) IN
  IF response = None
  THEN Ret(resume_http_request(set_http_request_body([s EXCEPT !.request_body = Empty], s.request_body)), "Continue")
  ELSE
    LET r  == Get(response)
        s1 == [s EXCEPT !.session_id = r.session_id, !.restore_mapping = r.restore_mapping]
    IN  CASE r.action = "block" -> InputLocal(s1, r.block_response)
          [] r.action = "replace" -> InputLocal(s1, r.replace_response)
          [] r.action = "anonymize" -> InputAnonymize(s1, r)
          [] r.action = "proxy_response" -> InputProxy(s1, r, ok)
          [] r.action = "switch_private_model" -> InputSwitch(s1, r)
          [] OTHER -> InputPass(s1)

handle_input_response(s, body, ok) ==
  LET response == DecodeInput(body) IN
  IF response = None THEN Ret(resume_http_request(s), "Continue")
  ELSE
    LET r  == Get(response)
        s1 == [s EXCEPT !.session_id = r.session_id, !.restore_mapping = r.restore_mapping]
    IN  CASE r.action = "block" -> InputLocal(s1, r.block_response)
          [] r.action = "replace" -> InputLocal(s1, r.replace_response)
          [] r.action = "anonymize" -> InputAnonymize(s1, r)
          [] r.action = "proxy_response" -> InputProxy(s1, r, ok)
          [] r.action = "switch_private_model" -> InputSwitch(s1, r)
          [] OTHER -> InputPass(s1)

\* A faulty variant of OutputPending: a restore verdict leaves the alternate body as it is.
OutputPending_unrestored(s, r, proxy_resp) ==
  IF r.action = "block" /\ IsSome(r.block_response)
  THEN send_local_response(s, Get(r.block_response).code, Get(r.block_response).content_type,
                           Get(r.block_response).body)
  ELSE send_local_response(s, proxy_resp.code, proxy_resp.content_type, proxy_resp.body)

\* handle_output_response with a pending proxy response (taken by the caller)
OutputPending(s, r, proxy_resp) ==
  CASE r.action = "block" /\ IsSome(r.block_response) -> SendResp(s, Get(r.block_response))
    [] r.action = "restore" /\ IsSome(r.restored_content) ->
         send_local_response(s, proxy_resp.code, proxy_resp.content_type,
                             rebuild_proxy_response_body(proxy_resp.body, Get(r.restored_content)))
    [] OTHER -> SendResp(s, proxy_resp)

\* A faulty variant of OutputUpstream: a block verdict leaves the upstream body in place.
OutputUpstream_ignoring_block(s, r) ==
  CASE r.action = "anonymize" /\ IsSome(r.anonymized_content) ->
         set_http_response_body(s, rebuild_response_body(s.response_body, Get(r.anonymized_content)))
    [] r.action = "restore" /\ IsSome(r.restored_content) ->
         set_http_response_body(s, rebuild_response_body(s.response_body, Get(r.restored_content)))
    [] OTHER -> s

\* handle_output_response on the upstream response
OutputUpstream(s, r) ==
  CASE r.action = "block" /\ IsSome(r.block_response) ->
         set_http_response_body(s, Get(r.block_response).body)
    [] r.action = "anonymize" /\ IsSome(r.anonymized_content) ->
         set_http_response_body(s, rebuild_response_body(s.response_body, Get(r.anonymized_content)))
    [] r.action = "restore" /\ IsSome(r.restored_content) ->
         set_http_response_body(s, rebuild_response_body(s.response_body, Get(r.restored_content)))
    [] OTHER -> s

\* A faulty variant of handle_output_response: the pending response is read, not taken.
handle_output_response_keeping_pending(s, body) ==
  LET response == DecodeOutput(body)
  IN  IF response = None
      THEN IF IsSome(s.pending_proxy_response)
           THEN Ret(SendResp(s, Get(s.pending_proxy_response)), "Pause")
           ELSE Ret(resume_http_response(s), "Continue")
      ELSE IF IsSome(s.pending_proxy_response)
           THEN Ret(OutputPending(s, Get(response), Get(s.pending_proxy_response)), "Pause")
           ELSE Ret(resume_http_response(OutputUpstream(s, Get(response))), "Continue")

handle_output_response(s, body) ==
  LET response == DecodeOutput(body)
      taken == [s EXCEPT !.pending_proxy_response = None]
  IN  IF response = None
      THEN IF IsSome(s.pending_proxy_response)
           THEN Ret(SendResp(taken, Get(s.pending_proxy_response)), "Pause")
           ELSE Ret(resume_http_response(s), "Continue")
      ELSE IF IsSome(s.pending_proxy_response)
           THEN Ret(OutputPending(taken, Get(response), Get(s.pending_proxy_response)), "Pause")
           ELSE Ret(resume_http_response(OutputUpstream(s, Get(response))), "Continue")

---------------------------------------------------------------------------
\* The callbacks (impl Context / impl HttpContext for OGConnector)

\* A faulty variant of on_http_call_response: a failed output check on a pending
\* alternate response lets the original request go on.
on_http_call_response_resuming_request(s, status, body, ok) ==
  IF status = None THEN s
  ELSE IF Get(status) # "200"
  THEN CASE s.state = "WaitingInputResponse" ->
              resume_http_request([s EXCEPT !.state = "Initial"])
         [] s.state = "WaitingOutputResponse" ->
              IF IsSome(s.pending_proxy_response)
              THEN resume_http_request([s EXCEPT !.pending_proxy_response = None, !.state = "Done"])
              ELSE resume_http_response([s EXCEPT !.state = "Done"])
         [] OTHER -> s
  ELSE CASE s.state = "WaitingInputResponse" -> handle_input_response(s, body, ok)
         [] s.state = "WaitingOutputResponse" -> handle_output_response([s EXCEPT !.state = "Done"], body)
         [] OTHER -> s

\* status: the ":status" header of the call response, None when the host
\* delivers the completion without one (the call timed out or failed).
\* body: the call response body; bytes that are no JSON object decode to an
\* error, as the empty vector taken for a body the host cannot give does.
on_http_call_response(s, status, body, ok) ==
  IF status = None THEN s
  ELSE IF Get(status) # "200"
  THEN CASE s.state = "WaitingInputResponse" ->
              resume_http_request([s EXCEPT !.state = "Initial"])
         [] s.state = "WaitingOutputResponse" ->
              IF IsSome(s.pending_proxy_response)
              THEN SendResp([s EXCEPT !.pending_proxy_response = None], Get(s.pending_proxy_response))
              ELSE resume_http_response([s EXCEPT !.state = "Done"])
         [] OTHER -> s
  ELSE CASE s.state = "WaitingInputResponse" -> handle_input_response(s, body, ok)
         [] s.state = "WaitingOutputResponse" -> handle_output_response([s EXCEPT !.state = "Done"], body)
         [] OTHER -> s

\* A faulty variant of on_http_request_headers: the bypass credential stays in the headers.
on_http_request_headers_keeping_token(s) ==
  IF s.config = None THEN Ret(s, "Continue")
  ELSE IF IsSome(get_http_request_header(s, "X-OG-Bypass-Token"))
  THEN Ret([s EXCEPT !.bypassed = TRUE], "Continue")
  ELSE LET lower == get_http_request_header(s, "x-mse-consumer")
           consumer == IF IsSome(lower) THEN lower ELSE get_http_request_header(s, "X-Mse-Consumer")
       IN  Ret(set_http_request_header([s EXCEPT !.consumer_id = consumer], "content-length", None),
               "StopIteration")

\* A faulty variant of on_http_request_headers: only the credential "tok-1" bypasses.
on_http_request_headers_checking_token(s) ==
  IF s.config = None THEN Ret(s, "Continue")
  ELSE IF get_http_request_header(s, "X-OG-Bypass-Token") = Some("tok-1")
  THEN Ret(set_http_request_header([s EXCEPT !.bypassed = TRUE], "X-OG-Bypass-Token", None), "Continue")
  ELSE LET lower == get_http_request_header(s, "x-mse-consumer")
           consumer == IF IsSome(lower) THEN lower ELSE get_http_request_header(s, "X-Mse-Consumer")
       IN  Ret(set_http_request_header([s EXCEPT !.consumer_id = consumer], "content-length", None),
               "StopIteration")

on_http_request_headers(s) ==
  IF s.config = None THEN Ret(s, "Continue")
  ELSE IF IsSome(get_http_request_header(s, "X-OG-Bypass-Token"))
  THEN Ret(set_http_request_header([s EXCEPT !.bypassed = TRUE], "X-OG-Bypass-Token", None), "Continue")
  ELSE LET lower == get_http_request_header(s, "x-mse-consumer")
           consumer == IF IsSome(lower) THEN lower ELSE get_http_request_header(s, "X-Mse-Consumer")
       IN  Ret(set_http_request_header([s EXCEPT !.consumer_id = consumer], "content-length", None),
               "StopIteration")

\* A faulty variant of on_http_request_body: without a configuration the request is refused.
on_http_request_body_failing_closed(s, end_of_stream, ok) ==
  IF s.bypassed THEN Ret(s, "Continue")
  ELSE IF ~end_of_stream THEN Ret(s, "StopIterationAndBuffer")
  ELSE
    LET got == get_buffer(s.host_req_body)
        s1  == IF IsSome(got) THEN [s EXCEPT !.request_body = Get(got)] ELSE s
        messages == parse_messages(s1.request_body)
    IN  IF s1.config = None
        THEN Ret(send_local_response(s1, 503, "text/plain", Text("no configuration")), "StopIterationAndBuffer")
        ELSE IF is_empty(s1.request_body) \/ ~Get(s1.config).enable_input_detection \/ messages = None
        THEN Ret(s1, "Continue")
        ELSE LET s2 == [s1 EXCEPT !.input_messages = messages,
                                  !.is_streaming = check_streaming(s1.request_body)]
                 s3 == call_og_api(s2, InputPath, build_input_request(Get(s2.config), Get(messages)), ok)
             IN  IF CallOk(s2, ok)
                 THEN Ret([s3 EXCEPT !.state = "WaitingInputResponse"], "StopIterationAndBuffer")
                 ELSE Ret(s3, "Continue")

on_http_request_body(s, end_of_stream, ok) ==
  IF s.bypassed THEN Ret(s, "Continue")
  ELSE IF ~end_of_stream THEN Ret(s, "StopIterationAndBuffer")
  ELSE
    LET got == get_buffer(s.host_req_body)
        s1  == IF IsSome(got) THEN [s EXCEPT !.request_body = Get(got)] ELSE s
        messages == parse_messages(s1.request_body)
    IN  IF s1.config = None \/ is_empty(s1.request_body)
           \/ ~Get(s1.config).enable_input_detection \/ messages = None
        THEN Ret(s1, "Continue")
        ELSE LET s2 == [s1 EXCEPT !.input_messages = messages,
                                  !.is_streaming = check_streaming(s1.request_body)]
                 s3 == call_og_api(s2, InputPath, build_input_request(Get(s2.config), Get(messages)), ok)
             IN  IF CallOk(s2, ok)
                 THEN Ret([s3 EXCEPT !.state = "WaitingInputResponse"], "StopIterationAndBuffer")
                 ELSE Ret(s3, "Continue")

on_http_response_headers(s) ==
  IF s.response_sent THEN Ret(s, "Continue")
  ELSE Ret(set_http_response_header(s, "content-length", None), "Continue")

\* A faulty variant of on_http_response_body: a stored session or mapping does not force the check.
on_http_response_body_by_flag_only(s, end_of_stream, ok) ==
  IF s.response_sent \/ s.state = "Done" \/ s.bypassed THEN Ret(s, "Continue")
  ELSE IF ~end_of_stream THEN Ret(s, "StopIterationAndBuffer")
  ELSE
    LET got == get_buffer(s.host_resp_body)
        s1  == IF IsSome(got) THEN [s EXCEPT !.response_body = Get(got)] ELSE s
        content == extract_response_content(s1.response_body)
    IN  IF s1.config = None THEN Ret(s1, "Continue")
        ELSE IF ~Get(s1.config).enable_output_detection THEN Ret(s1, "Continue")
        ELSE IF content = None THEN Ret(s1, "Continue")
        ELSE LET s2 == call_og_api(s1, OutputPath, build_output_request(s1, Get(content)), ok)
             IN  IF CallOk(s1, ok)
                 THEN Ret([s2 EXCEPT !.state = "WaitingOutputResponse"], "StopIterationAndBuffer")
                 ELSE Ret(s2, "Continue")

\* A faulty variant of on_http_response_body: every chunk callback reads the buffer.
on_http_response_body_reading_chunks(s, end_of_stream, ok) ==
  IF s.response_sent \/ s.state = "Done" \/ s.bypassed THEN Ret(s, "Continue")
  ELSE
    LET got == get_buffer(s.host_resp_body)
        s1  == IF IsSome(got) THEN [s EXCEPT !.response_body = Get(got)] ELSE s
        content == extract_response_content(s1.response_body)
    IN  IF ~end_of_stream THEN Ret(s1, "StopIterationAndBuffer")
        ELSE IF s1.config = None THEN Ret(s1, "Continue")
        ELSE IF ~Get(s1.config).enable_output_detection
                /\ s1.session_id = None /\ s1.restore_mapping = None
        THEN Ret(s1, "Continue")
        ELSE IF content = None THEN Ret(s1, "Continue")
        ELSE LET s2 == call_og_api(s1, OutputPath, build_output_request(s1, Get(content)), ok)
             IN  IF CallOk(s1, ok)
                 THEN Ret([s2 EXCEPT !.state = "WaitingOutputResponse"], "StopIterationAndBuffer")
                 ELSE Ret(s2, "Continue")

on_http_response_body(s, end_of_stream, ok) ==
  IF s.response_sent \/ s.state = "Done" \/ s.bypassed THEN Ret(s, "Continue")
  ELSE IF ~end_of_stream THEN Ret(s, "StopIterationAndBuffer")
  ELSE
    LET got == get_buffer(s.host_resp_body)
        s1  == IF IsSome(got) THEN [s EXCEPT !.response_body = Get(got)] ELSE s
        content == extract_response_content(s1.response_body)
    IN  IF s1.config = None THEN Ret(s1, "Continue")
        ELSE IF ~Get(s1.config).enable_output_detection
                /\ s1.session_id = None /\ s1.restore_mapping = None
        THEN Ret(s1, "Continue")
        ELSE IF content = None THEN Ret(s1, "Continue")
        ELSE LET s2 == call_og_api(s1, OutputPath, build_output_request(s1, Get(content)), ok)
             IN  IF CallOk(s1, ok)
                 THEN Ret([s2 EXCEPT !.state = "WaitingOutputResponse"], "StopIterationAndBuffer")
                 ELSE Ret(s2, "Continue")

---------------------------------------------------------------------------
\* The inputs of an exchange

Configs ==
  {None} \cup
  {Some([og_cluster |-> "outbound|og", application_id |-> c[1],
         enable_input_detection |-> c[2], enable_output_detection |-> c[3]]) :
     c \in {<<"app1", TRUE, TRUE>>, <<"", TRUE, TRUE>>, <<"", TRUE, FALSE>>,
            <<"app1", FALSE, TRUE>>, <<"", FALSE, FALSE>>}}

\* The request headers of the client: the bypass credential and the consumer
\* identity are present or not.
RequestHeaders ==
  {[k \in HeaderKeys |->
      CASE k = "authorization" -> "Bearer client"
        [] k = "content-length" -> "42"
        [] k = "x-og-bypass-token" -> h[1]
        [] k = "x-mse-consumer" -> h[2]
        [] OTHER -> Absent] :
     h \in {<<Absent, Absent>>, <<Absent, "consumer-1">>, <<"tok-1", Absent>>, <<"forged", "consumer-1">>}}

ChatDoc == [messages |-> "[hi]", model |-> "gpt-4", stream |-> "false", content |-> NoChoices, extra |-> "x"]

RequestBodies ==
  {Empty, Text("not json"),
   Json("spaced", ChatDoc),
   Json("compact", [ChatDoc EXCEPT !.stream = "true", !.model = Absent]),
   Json("spaced", [ChatDoc EXCEPT !.messages = "[]"]),
   Json("spaced", [ChatDoc EXCEPT !.messages = Absent]),
   Json("compact", [ChatDoc EXCEPT !.messages = "#non-array"])}

AnswerDoc == [messages |-> Absent, model |-> "gpt-4", stream |-> Absent, content |-> "hello", extra |-> "usage"]

ResponseBodies ==
  {Empty, Text("upstream error"),
   Json("spaced", AnswerDoc),
   Json("compact", [AnswerDoc EXCEPT !.content = "contact __EMAIL_1__"]),
   Json("spaced", [AnswerDoc EXCEPT !.content = NoChoices]),
   Json("compact", [AnswerDoc EXCEPT !.content = NonString])}

BlockResp == [code |-> 403, content_type |-> "application/json", body |-> Text("blocked")]

ReplaceResp == [code |-> 200, content_type |-> "text/plain", body |-> Text("replaced")]

OutBlockResp == [code |-> 451, content_type |-> "application/json", body |-> Text("output blocked")]

AltDoc == [messages |-> Absent, model |-> "alt-7b", stream |-> Absent, content |-> "alt answer", extra |-> "alt-usage"]

ProxyResponses ==
  {[code |-> 200, content_type |-> "application/json", body |-> Json("spaced", AltDoc)],
   [code |-> 201, content_type |-> "application/json", body |-> Json("compact", [AltDoc EXCEPT !.content = NoChoices])],
   [code |-> 502, content_type |-> "text/plain", body |-> Text("alt down")]}

PrivateModels ==
  {[api_base_url |-> TRUE, api_key |-> Some("sk-alt"), model_name |-> "alt-7b",
    provider |-> Some("openai"), higress_cluster |-> Some("outbound|alt")],
   [api_base_url |-> TRUE, api_key |-> None, model_name |-> "alt-7b",
    provider |-> None, higress_cluster |-> None],
   [api_base_url |-> FALSE, api_key |-> None, model_name |-> "alt-7b",
    provider |-> None, higress_cluster |-> Some("outbound|alt")]}

\* A call response body that is a JSON object {"action": "pass", "request_id": ...}
PassWire ==
  [json |-> TRUE, action |-> "pass", request_id |-> TRUE,
   session_id |-> None, restore_mapping |-> None,
   block_response |-> None, replace_response |-> None, anonymized_messages |-> None,
   proxy_response |-> None, private_model |-> None, bypass_token |-> None, bypass_header |-> None,
   restored_content |-> None, anonymized_content |-> None]

\* Bytes that are no JSON object (or no body at all)
BadWire == [PassWire EXCEPT !.json = FALSE, !.action = Absent, !.request_id = FALSE]

\* The call response body
\* {"action":"switch_private_model","private_model":{"model_name":"alt-7b","higress_cluster":"outbound|alt"}}
\* and nothing else: no request_id, no api_base_url.
SwitchOnlyWire ==
  [PassWire EXCEPT !.action = "switch_private_model", !.request_id = FALSE,
                   !.private_model = Some([api_base_url |-> FALSE, api_key |-> None, model_name |-> "alt-7b",
                                           provider |-> None, higress_cluster |-> Some("outbound|alt")])]

Sessions == {<<None, None>>, <<Some("sess-1"), None>>, <<None, Some("map-1")>>, <<Some("sess-1"), Some("map-1")>>}

FewSessions == {<<None, None>>, <<Some("sess-1"), Some("map-1")>>}

WithSession(w, ss) == [w EXCEPT !.session_id = ss[1], !.restore_mapping = ss[2]]

InputWires ==
  {BadWire, [PassWire EXCEPT !.request_id = FALSE], SwitchOnlyWire}
  \cup {WithSession([PassWire EXCEPT !.action = a], ss) : a \in {"pass", "audit"}, ss \in FewSessions}
  \cup {WithSession([PassWire EXCEPT !.action = "block", !.block_response = b], ss) :
          b \in {None, Some(BlockResp)}, ss \in FewSessions}
  \cup {WithSession([PassWire EXCEPT !.action = "replace", !.replace_response = b], ss) :
          b \in {None, Some(ReplaceResp)}, ss \in FewSessions}
  \cup {WithSession([PassWire EXCEPT !.action = "anonymize", !.anonymized_messages = m], ss) :
          m \in {None, Some("[__EMAIL_1__]")}, ss \in Sessions}
  \cup {WithSession([PassWire EXCEPT !.action = "proxy_response", !.proxy_response = p], ss) :
          p \in {None} \cup {Some(x) : x \in ProxyResponses}, ss \in FewSessions}
  \cup {[PassWire EXCEPT !.action = "switch_private_model", !.private_model = pm,
                         !.bypass_token = bt[1], !.bypass_header = bt[2]] :
          pm \in {None} \cup {Some(x) : x \in PrivateModels},
          bt \in {<<None, None>>, <<Some("tok-1"), None>>, <<Some("tok-1"), Some("X-Custom-Bypass")>>,
                  <<Some("tok-1"), Some("Authorization")>>}}

OutputWires ==
  {BadWire}
  \cup {[PassWire EXCEPT !.action = a, !.request_id = FALSE] : a \in {"pass", "audit"}}
  \cup {[PassWire EXCEPT !.action = "block", !.block_response = b] : b \in {None, Some(OutBlockResp)}}
  \cup {[PassWire EXCEPT !.action = "restore", !.restored_content = c] : c \in {None, Some("contact a@b.com")}}
  \cup {[PassWire EXCEPT !.action = "anonymize", !.anonymized_content = c] : c \in {None, Some("contact __PHONE_1__")}}

\* The ":status" of a call response: None is a completion without one.
Statuses == {None, Some("200"), Some("201"), Some("500")}

---------------------------------------------------------------------------
\* State

VARIABLES
  \* struct OGConnector
  config, state, request_body, response_body, session_id, restore_mapping,
  is_streaming, input_messages, bypassed, pending_proxy_response, response_sent, consumer_id,
  \* the host's side of the exchange
  req_headers, resp_content_length, host_req_body, host_resp_body, cluster_name,
  upstream_body, client_responses, call, n_calls,
  \* where the host is in the request and in the response stream
  req_pos, resp_pos, req_chunks, resp_chunks, n_callbacks,
  \* the last callback: the host calls it made, what it returned, its inputs
  \* and the state it started from
  effects, ret, last,
  \* what the client sent and the upstream answered; the verdicts decoded so far
  orig_req_body, orig_resp_body, applied_in, applied_out,
  \* two exchanges of the same plugin side by side (SpecTwo): their
  \* OGConnector and host side; each as it is when the callbacks it received
  \* are delivered to it with no other exchange around; the stream callbacks
  \* delivered to each
  exchanges, alone, delivered,
  \* one call of a body rewrite function (SpecRewrite): the function, the
  \* body it is given, the new value, and the bytes it returns
  rewrite

\* The variables of the one exchange that Spec and SpecAny follow
exchange_vars ==
  <<config, state, request_body, response_body, session_id, restore_mapping,
    is_streaming, input_messages, bypassed, pending_proxy_response, response_sent, consumer_id,
    req_headers, resp_content_length, host_req_body, host_resp_body, cluster_name,
    upstream_body, client_responses, call, n_calls,
    req_pos, resp_pos, req_chunks, resp_chunks, n_callbacks,
    effects, ret, last, orig_req_body, orig_resp_body, applied_in, applied_out>>

vars ==
  <<config, state, request_body, response_body, session_id, restore_mapping,
    is_streaming, input_messages, bypassed, pending_proxy_response, response_sent, consumer_id,
    req_headers, resp_content_length, host_req_body, host_resp_body, cluster_name,
    upstream_body, client_responses, call, n_calls,
    req_pos, resp_pos, req_chunks, resp_chunks, n_callbacks,
    effects, ret, last, orig_req_body, orig_resp_body, applied_in, applied_out,
    exchanges, alone, delivered, rewrite>>

\* The exchange as the record the methods work on
Self ==
  [config |-> config, state |-> state, request_body |-> request_body,
   response_body |-> response_body, session_id |-> session_id,
   restore_mapping |-> restore_mapping, is_streaming |-> is_streaming,
   input_messages |-> input_messages, bypassed |-> bypassed,
   pending_proxy_response |-> pending_proxy_response, response_sent |-> response_sent,
   consumer_id |-> consumer_id,
   req_headers |-> req_headers, resp_content_length |-> resp_content_length,
   host_req_body |-> host_req_body, host_resp_body |-> host_resp_body,
   cluster_name |-> cluster_name, upstream_body |-> upstream_body,
   client_responses |-> client_responses, call |-> call, n_calls |-> n_calls,
   effects |-> <<>>, ret |-> "()"]

Commit(r) ==
  /\ config' = r.config
  /\ state' = r.state
  /\ request_body' = r.request_body
  /\ response_body' = r.response_body
  /\ session_id' = r.session_id
  /\ restore_mapping' = r.restore_mapping
  /\ is_streaming' = r.is_streaming
  /\ input_messages' = r.input_messages
  /\ bypassed' = r.bypassed
  /\ pending_proxy_response' = r.pending_proxy_response
  /\ response_sent' = r.response_sent
  /\ consumer_id' = r.consumer_id
  /\ req_headers' = r.req_headers
  /\ resp_content_length' = r.resp_content_length
  /\ host_req_body' = r.host_req_body
  /\ host_resp_body' = r.host_resp_body
  /\ cluster_name' = r.cluster_name
  /\ upstream_body' = r.upstream_body
  /\ client_responses' = r.client_responses
  /\ call' = r.call
  /\ n_calls' = r.n_calls
  /\ effects' = r.effects
  /\ ret' = r.ret
  /\ UNCHANGED <<exchanges, alone, delivered, rewrite>>

\* What a callback started from and was given
Event(cb, end_of_stream, status, body, ok) ==
  [cb |-> cb, end_of_stream |-> end_of_stream, status |-> status, body |-> body, ok |-> ok,
   state |-> state, session_id |-> session_id, restore_mapping |-> restore_mapping,
   pending_proxy_response |-> pending_proxy_response, response_sent |-> response_sent,
   request_body |-> request_body, response_body |-> response_body,
   input_messages |-> input_messages, bypassed |-> bypassed, consumer_id |-> consumer_id,
   host_req_body |-> host_req_body, host_resp_body |-> host_resp_body,
   req_headers |-> req_headers, cluster_name |-> cluster_name,
   upstream_body |-> upstream_body, client_responses |-> client_responses, call |-> call]

\* OGConnectorRoot::create_http_context for another request through the same
\* plugin: a fresh OGConnector, the host holding the given headers and body.
NewExchange(cfg, headers, body) ==
  [config |-> cfg, state |-> "Initial", request_body |-> Empty, response_body |-> Empty,
   session_id |-> None, restore_mapping |-> None, is_streaming |-> FALSE,
   input_messages |-> None, bypassed |-> FALSE, pending_proxy_response |-> None,
   response_sent |-> FALSE, consumer_id |-> None,
   req_headers |-> headers, resp_content_length |-> TRUE,
   host_req_body |-> body, host_resp_body |-> Empty,
   cluster_name |-> "outbound|upstream", upstream_body |-> None,
   client_responses |-> <<>>, call |-> None,
   n_calls |-> [p \in {InputPath, OutputPath} |-> 0],
   effects |-> <<>>, ret |-> "()"]

\* OGConnectorRoot::create_http_context, and the request the client sends
Init ==
  /\ config \in Configs
  /\ state = "Initial"
  /\ request_body = Empty
  /\ response_body = Empty
  /\ session_id = None
  /\ restore_mapping = None
  /\ is_streaming = FALSE
  /\ input_messages = None
  /\ bypassed = FALSE
  /\ pending_proxy_response = None
  /\ response_sent = FALSE
  /\ consumer_id = None
  /\ req_headers \in RequestHeaders
  /\ resp_content_length = TRUE
  /\ host_req_body \in RequestBodies
  /\ orig_req_body = host_req_body
  /\ host_resp_body = Empty
  /\ orig_resp_body = Empty
  /\ cluster_name = "outbound|upstream"
  /\ upstream_body = None
  /\ client_responses = <<>>
  /\ call = None
  /\ n_calls = [p \in {InputPath, OutputPath} |-> 0]
  /\ req_pos = "start"
  /\ resp_pos = "start"
  /\ req_chunks = 0
  /\ resp_chunks = 0
  /\ n_callbacks = 0
  /\ effects = <<>>
  /\ ret = "()"
  /\ last = Event("create_http_context", FALSE, None, BadWire, TRUE)
  /\ applied_in = None
  /\ applied_out = None
  /\ exchanges = <<>>
  /\ alone = <<>>
  /\ delivered = <<>>
  /\ rewrite = <<>>

---------------------------------------------------------------------------
\* The host.  With ordered = TRUE it delivers the callbacks of an exchange in
\* the order of the HTTP stream: the request headers, the request body in chunks
\* up to end_of_stream, the completion of a call in flight, and, once the
\* request went upstream or a local response was sent, the response headers and
\* the response body in chunks.  With ordered = FALSE it delivers any stream
\* callback at any time (at most MaxCallbacks of them).

HasEffect(r, op) == \E i \in 1..Len(r.effects) : r.effects[i].op = op

LocalSent(responses) == \E i \in 1..Len(responses) : responses[i].src = "local"

Counted(ordered) ==
  /\ ordered \/ n_callbacks < MaxCallbacks
  /\ n_callbacks' = IF ordered THEN n_callbacks ELSE n_callbacks + 1

OnHttpRequestHeaders(ordered) ==
  /\ ordered => req_pos = "start"
  /\ Counted(ordered)
  /\ Commit(on_http_request_headers(Self))
  /\ req_pos' = IF req_pos = "start" THEN "headers" ELSE req_pos
  /\ last' = Event("on_http_request_headers", FALSE, None, BadWire, TRUE)
  /\ UNCHANGED <<resp_pos, req_chunks, resp_chunks, orig_req_body, orig_resp_body, applied_in, applied_out>>

\* A returned Continue on the last chunk lets the request go upstream.
OnHttpRequestBody(ordered, end_of_stream, ok) ==
  /\ ordered => req_pos = "headers"
  /\ end_of_stream \/ req_chunks < MaxChunks
  /\ Counted(ordered)
  /\ LET r == on_http_request_body(Self, end_of_stream, ok) IN
       /\ ok \/ HasEffect(r, "dispatch_http_call")
       /\ Commit(IF end_of_stream /\ r.ret = "Continue" THEN Forward(r) ELSE r)
  /\ req_pos' = IF end_of_stream THEN "done" ELSE req_pos
  /\ req_chunks' = IF end_of_stream THEN 0 ELSE req_chunks + 1
  /\ last' = Event("on_http_request_body", end_of_stream, None, BadWire, ok)
  /\ UNCHANGED <<resp_pos, resp_chunks, orig_req_body, orig_resp_body, applied_in, applied_out>>

\* The completion of the call in flight: with status 200 the moderation
\* service's answer for the endpoint called; with 201 a block verdict; else
\* no usable body.
OnHttpCallResponse(status, body, ok) ==
  /\ IsSome(call)
  /\ n_callbacks' = n_callbacks
  /\ LET r == on_http_call_response([Self EXCEPT !.call = None], status, body, ok) IN
       /\ ok \/ HasEffect(r, "dispatch_http_call")
       /\ Commit(r)
  /\ last' = Event("on_http_call_response", FALSE, status, body, ok)
  /\ applied_in' = IF state = "WaitingInputResponse" /\ status = Some("200") /\ IsSome(DecodeInput(body))
                   THEN Some(body) ELSE applied_in
  /\ applied_out' = IF state = "WaitingOutputResponse" /\ status = Some("200") /\ IsSome(DecodeOutput(body))
                    THEN Some(body) ELSE applied_out
  /\ UNCHANGED <<req_pos, resp_pos, req_chunks, resp_chunks, orig_req_body, orig_resp_body>>

\* The response that starts is the local one when one was sent, else the
\* upstream's, with body upstream_response.
OnHttpResponseHeaders(ordered, upstream_response) ==
  /\ ordered => resp_pos = "start" /\ (IsSome(upstream_body) \/ LocalSent(client_responses))
  /\ LocalSent(client_responses) => upstream_response = client_responses[Len(client_responses)].body
  /\ Counted(ordered)
  /\ Commit(on_http_response_headers([Self EXCEPT !.host_resp_body = upstream_response]))
  /\ resp_pos' = IF resp_pos = "start" THEN "headers" ELSE resp_pos
  /\ orig_resp_body' = upstream_response
  /\ last' = Event("on_http_response_headers", FALSE, None, BadWire, TRUE)
  /\ UNCHANGED <<req_pos, req_chunks, resp_chunks, orig_req_body, applied_in, applied_out>>

\* A returned Continue on the last chunk lets the upstream response go to the client.
OnHttpResponseBody(ordered, end_of_stream, ok) ==
  /\ ordered => resp_pos = "headers"
  /\ end_of_stream \/ resp_chunks < MaxChunks
  /\ Counted(ordered)
  /\ LET r == on_http_response_body(Self, end_of_stream, ok) IN
       /\ ok \/ HasEffect(r, "dispatch_http_call")
       /\ Commit(IF end_of_stream /\ r.ret = "Continue" /\ client_responses = <<>> THEN Deliver(r) ELSE r)
  /\ resp_pos' = IF end_of_stream THEN "done" ELSE resp_pos
  /\ resp_chunks' = IF end_of_stream THEN 0 ELSE resp_chunks + 1
  /\ last' = Event("on_http_response_body", end_of_stream, None, BadWire, ok)
  /\ UNCHANGED <<req_pos, req_chunks, orig_req_body, orig_resp_body, applied_in, applied_out>>

\* What the moderation service may answer to the call in flight
Answers(wires_in, wires_out) ==
  {<<st, BadWire>> : st \in Statuses \ {Some("200")}}
  \cup {<<Some("200"), w>> : w \in IF Get(call).path = InputPath THEN wires_in ELSE wires_out}
  \cup {<<Some("201"), IF Get(call).path = InputPath
                       THEN [PassWire EXCEPT !.action = "block", !.block_response = Some(BlockResp)]
                       ELSE [PassWire EXCEPT !.action = "block", !.block_response = Some(OutBlockResp)]>>}

CallCompletes(wires_in, wires_out) ==
  /\ IsSome(call)
  /\ \E a \in Answers(wires_in, wires_out), ok \in BOOLEAN : OnHttpCallResponse(a[1], a[2], ok)

Next ==
  \/ OnHttpRequestHeaders(TRUE)
  \/ \E end_of_stream \in BOOLEAN, ok \in BOOLEAN : OnHttpRequestBody(TRUE, end_of_stream, ok)
  \/ CallCompletes(InputWires, OutputWires)
  \/ \E upstream_response \in ResponseBodies \cup {BlockResp.body, ReplaceResp.body, OutBlockResp.body}
                            \cup {p.body : p \in ProxyResponses} \cup {to_vec([AltDoc EXCEPT !.content = "contact a@b.com"])} :
       OnHttpResponseHeaders(TRUE, upstream_response)
  \/ \E end_of_stream \in BOOLEAN, ok \in BOOLEAN : OnHttpResponseBody(TRUE, end_of_stream, ok)

Spec == Init /\ [][Next]_vars

---------------------------------------------------------------------------
\* The same exchange under a host that keeps no order among the stream
\* callbacks: the connector's own guards are all that stands between a
\* callback and its effect.

AnyInputWires ==
  {BadWire, PassWire,
   [PassWire EXCEPT !.action = "block", !.block_response = Some(BlockResp)],
   [PassWire EXCEPT !.action = "block"]}

AnyOutputWires == {BadWire, [PassWire EXCEPT !.action = "block", !.block_response = Some(OutBlockResp)]}

InitAny ==
  /\ Init
  /\ config \in {None, Some([og_cluster |-> "outbound|og", application_id |-> "app1",
                             enable_input_detection |-> TRUE, enable_output_detection |-> TRUE])}
  /\ req_headers["x-mse-consumer"] = Absent
  /\ host_req_body \in {Text("not json"), Json("spaced", ChatDoc)}

NextAny ==
  \/ OnHttpRequestHeaders(FALSE)
  \/ \E end_of_stream \in BOOLEAN, ok \in BOOLEAN : OnHttpRequestBody(FALSE, end_of_stream, ok)
  \/ CallCompletes(AnyInputWires, AnyOutputWires)
  \/ \E upstream_response \in {Json("spaced", AnswerDoc), BlockResp.body, OutBlockResp.body} :
       OnHttpResponseHeaders(FALSE, upstream_response)
  \/ \E end_of_stream \in BOOLEAN, ok \in BOOLEAN : OnHttpResponseBody(FALSE, end_of_stream, ok)

SpecAny == InitAny /\ [][NextAny]_vars

---------------------------------------------------------------------------
\* Two exchanges of one plugin instance.  OGConnectorRoot gives each its own
\* OGConnector (the configuration cloned into it); the host runs a callback
\* with the context of the exchange it belongs to, to the end, before the
\* next one, and interleaves the callbacks of the two exchanges at will; the
\* stream callbacks of one exchange come in the order of its HTTP stream.

Exchanges == {1, 2}

StreamOrder ==
  <<"on_http_request_headers", "on_http_request_body", "on_http_response_headers", "on_http_response_body">>

\* A faulty variant of Context: one OGConnector serves every exchange.
Context_shared(xs, i) == xs[1]

\* self in a callback of exchange i
Context(xs, i) == xs[i]

\* One callback on the exchange x, with what the host does on the action
\* returned (a Continue on the last body chunk lets the body go on).
Callback(x, cb, status, body, upstream_response) ==
  LET s == [x EXCEPT !.effects = <<>>, !.ret = "()"] IN
  CASE cb = "on_http_request_headers" -> on_http_request_headers(s)
    [] cb = "on_http_request_body" ->
         LET r == on_http_request_body(s, TRUE, TRUE)
         IN  IF r.ret = "Continue" THEN Forward(r) ELSE r
    [] cb = "on_http_call_response" -> on_http_call_response([s EXCEPT !.call = None], status, body, TRUE)
    [] cb = "on_http_response_headers" ->
         on_http_response_headers([s EXCEPT !.host_resp_body = upstream_response])
    [] cb = "on_http_response_body" ->
         LET r == on_http_response_body(s, TRUE, TRUE)
         IN  IF r.ret = "Continue" /\ x.client_responses = <<>> THEN Deliver(r) ELSE r

TwoConfig ==
  Some([og_cluster |-> "outbound|og", application_id |-> "app1",
        enable_input_detection |-> TRUE, enable_output_detection |-> TRUE])

\* The request of exchange i: each has its own consumer and its own messages.
TwoHeaders(i) ==
  [k \in HeaderKeys |->
     CASE k = "authorization" -> "Bearer client"
       [] k = "content-length" -> "42"
       [] k = "x-mse-consumer" -> IF i = 1 THEN "consumer-1" ELSE "consumer-2"
       [] OTHER -> Absent]

TwoBody(i) == Json("spaced", [ChatDoc EXCEPT !.messages = IF i = 1 THEN "[hi]" ELSE "[my secret]"])

\* The upstream's answer to exchange i
TwoAnswer(i) == Json("spaced", [AnswerDoc EXCEPT !.content = IF i = 1 THEN "hello" ELSE "contact __EMAIL_1__"])

TwoInputWires ==
  {BadWire, PassWire,
   [PassWire EXCEPT !.action = "block", !.block_response = Some(BlockResp)],
   WithSession([PassWire EXCEPT !.action = "anonymize", !.anonymized_messages = Some("[__EMAIL_1__]")],
               <<Some("sess-1"), Some("map-1")>>)}

TwoOutputWires == {PassWire, [PassWire EXCEPT !.action = "restore", !.restored_content = Some("contact a@b.com")]}

\* No exchange of the kind Spec follows is under way.
Idle ==
  /\ config = None
  /\ state = "Initial"
  /\ request_body = Empty
  /\ response_body = Empty
  /\ session_id = None
  /\ restore_mapping = None
  /\ is_streaming = FALSE
  /\ input_messages = None
  /\ bypassed = FALSE
  /\ pending_proxy_response = None
  /\ response_sent = FALSE
  /\ consumer_id = None
  /\ req_headers = TwoHeaders(1)
  /\ resp_content_length = TRUE
  /\ host_req_body = Empty
  /\ orig_req_body = Empty
  /\ host_resp_body = Empty
  /\ orig_resp_body = Empty
  /\ cluster_name = "outbound|upstream"
  /\ upstream_body = None
  /\ client_responses = <<>>
  /\ call = None
  /\ n_calls = [p \in {InputPath, OutputPath} |-> 0]
  /\ req_pos = "start"
  /\ resp_pos = "start"
  /\ req_chunks = 0
  /\ resp_chunks = 0
  /\ n_callbacks = 0
  /\ effects = <<>>
  /\ ret = "()"
  /\ last = Event("create_http_context", FALSE, None, BadWire, TRUE)
  /\ applied_in = None
  /\ applied_out = None

InitTwo ==
  /\ exchanges = [i \in Exchanges |-> NewExchange(TwoConfig, TwoHeaders(i), TwoBody(i))]
  /\ alone = exchanges
  /\ delivered = [i \in Exchanges |-> 0]
  /\ rewrite = <<>>
  /\ Idle

\* A callback of exchange i: it works on the context of i, and the same
\* callback is given to the exchange i that runs alone.
Runs(i, cb, status, body) ==
  /\ exchanges' = [exchanges EXCEPT ![i] = Callback(Context(exchanges, i), cb, status, body, TwoAnswer(i))]
  /\ alone' = [alone EXCEPT ![i] = Callback(alone[i], cb, status, body, TwoAnswer(i))]
  /\ UNCHANGED <<exchange_vars, rewrite>>

StreamCallback(i) ==
  /\ delivered[i] < Len(StreamOrder)
  /\ delivered' = [delivered EXCEPT ![i] = @ + 1]
  /\ Runs(i, StreamOrder[delivered[i] + 1], None, BadWire)

CallCompletion(i, status, body) ==
  /\ IsSome(exchanges[i].call)
  /\ UNCHANGED delivered
  /\ Runs(i, "on_http_call_response", status, body)

NextTwo ==
  \/ \E i \in Exchanges : StreamCallback(i)
  \/ \E i \in Exchanges, status \in {Some("200"), Some("500")}, body \in TwoInputWires \cup TwoOutputWires :
       /\ status = Some("200") =>
            body \in (IF IsSome(exchanges[i].call) /\ Get(exchanges[i].call).path = InputPath
                      THEN TwoInputWires ELSE TwoOutputWires)
       /\ status = Some("500") => body = BadWire
       /\ CallCompletion(i, status, body)

SpecTwo == InitTwo /\ [][NextTwo]_vars

---------------------------------------------------------------------------
\* The body rewrite functions on their own: any body with any new value.

RewriteBodies ==
  RequestBodies \cup ResponseBodies \cup {p.body : p \in ProxyResponses}
  \cup {Json("compact", [AnswerDoc EXCEPT !.content = NoChoices]),
        Json("compact", [AnswerDoc EXCEPT !.content = NoContent]),
        Json("spaced", [AnswerDoc EXCEPT !.content = NoMessage]),
        Json("compact", [ChatDoc EXCEPT !.messages = Absent])}

RewriteValues == {"[__EMAIL_1__]", "contact a@b.com"}

InitRewrite ==
  /\ rewrite \in [fn : {"rebuild_request_body", "rebuild_response_body", "rebuild_proxy_response_body"},
                  body : RewriteBodies, new : RewriteValues, out : {None}]
  /\ exchanges = <<>>
  /\ alone = <<>>
  /\ delivered = <<>>
  /\ Idle

Returns(out) ==
  /\ rewrite.out = None
  /\ rewrite' = [rewrite EXCEPT !.out = Some(out)]
  /\ UNCHANGED <<exchange_vars, exchanges, alone, delivered>>

RebuildRequestBody ==
  /\ rewrite.fn = "rebuild_request_body"
  /\ Returns(rebuild_request_body(rewrite.body, rewrite.new))

RebuildResponseBody ==
  /\ rewrite.fn = "rebuild_response_body"
  /\ Returns(rebuild_response_body(rewrite.body, rewrite.new))

RebuildProxyResponseBody ==
  /\ rewrite.fn = "rebuild_proxy_response_body"
  /\ Returns(rebuild_proxy_response_body(rewrite.body, rewrite.new))

NextRewrite == RebuildRequestBody \/ RebuildResponseBody \/ RebuildProxyResponseBody

SpecRewrite == InitRewrite /\ [][NextRewrite]_vars

---------------------------------------------------------------------------
\* Properties.  last is the callback that led to the current state, with the
\* fields it started from; effects and ret are what it did.

LocalResponse(r) == [src |-> "local", code |-> r.code, content_type |-> r.content_type, body |-> r.body]

UpstreamResponse(body) == [src |-> "upstream", code |-> 0, content_type |-> "", body |-> body]

\* The last callback was the completion of a call, handled in the given state.
Completed(st) == last.cb = "on_http_call_response" /\ last.state = st

\* ... with status 200 and a body that decodes to a verdict
InputVerdict == Completed("WaitingInputResponse") /\ last.status = Some("200") /\ IsSome(DecodeInput(last.body))

OutputVerdict == Completed("WaitingOutputResponse") /\ last.status = Some("200") /\ IsSome(DecodeOutput(last.body))

\* ... as a failure: no status (timeout), a status other than 200, or 200
\* with a body that does not decode
InputFailure == Completed("WaitingInputResponse") /\ ~InputVerdict

OutputFailure == Completed("WaitingOutputResponse") /\ ~OutputVerdict

TimedOut == last.cb = "on_http_call_response" /\ last.status = None

\* C1: an input verdict "block" that supplies a block_response ends the
\* exchange with exactly that response sent to the client, the buffered request
\* body cleared, the phase Done, and the request never sent upstream, then and
\* ever after.
C1_InputBlockSendsLocalResponse ==
  (IsSome(applied_in) /\ Get(applied_in).action = "block" /\ IsSome(Get(applied_in).block_response)) =>
    /\ client_responses = <<LocalResponse(Get(Get(applied_in).block_response))>>
    /\ response_sent
    /\ state = "Done"
    /\ host_req_body = Empty
    /\ upstream_body = None

C1_Witness ==
  /\ InputVerdict
  /\ last.body.action = "block"
  /\ IsSome(last.body.block_response)
  /\ last.host_req_body = Json("spaced", ChatDoc)
  /\ response_sent

\* C2 (as claimed): after a call completion without status (a timeout) the
\* exchange has completed with the original content: the request went
\* upstream with the body it had, or the client got a response.
C2_TimeoutCompletesExchange ==
  /\ (TimedOut /\ last.state = "WaitingInputResponse") => upstream_body = Some(last.host_req_body)
  /\ (TimedOut /\ last.state = "WaitingOutputResponse") =>
       client_responses = <<IF IsSome(last.pending_proxy_response)
                            THEN LocalResponse(Get(last.pending_proxy_response))
                            ELSE UpstreamResponse(last.host_resp_body)>>

\* C3 (as claimed): at most one local response is ever sent, and a callback
\* that starts after a local response was sent changes no field of the
\* exchange and makes no host call.
C3_NothingAfterResponseSent ==
  /\ Cardinality({i \in 1..Len(client_responses) : client_responses[i].src = "local"}) <= 1
  /\ last.response_sent =>
       /\ effects = <<>>
       /\ state = last.state
       /\ request_body = last.request_body
       /\ response_body = last.response_body
       /\ session_id = last.session_id
       /\ restore_mapping = last.restore_mapping
       /\ input_messages = last.input_messages
       /\ bypassed = last.bypassed
       /\ consumer_id = last.consumer_id
       /\ pending_proxy_response = last.pending_proxy_response
       /\ response_sent

\* C4 (as claimed): every failed input call (non-2xx, timeout, decode error)
\* resumes the request with body and headers as they were and returns the
\* phase to Initial.
C4_InputFailureResumesToInitial ==
  InputFailure =>
    /\ state = "Initial"
    /\ effects = <<[op |-> "resume_http_request", arg |-> ""]>>
    /\ upstream_body = Some(last.host_req_body)
    /\ host_req_body = last.host_req_body
    /\ req_headers = last.req_headers

\* C5 (as claimed): every failed output call ends in Done, with the pending
\* alternate response sent unmodified if there is one, else with the upstream
\* response resumed unmodified.
C5_OutputFailureRelaysOrResumes ==
  OutputFailure =>
    /\ state = "Done"
    /\ pending_proxy_response = None
    /\ client_responses = <<IF IsSome(last.pending_proxy_response)
                             THEN LocalResponse(Get(last.pending_proxy_response))
                             ELSE UpstreamResponse(last.host_resp_body)>>

\* C6 (as claimed): a call completion delivered to a suspended exchange
\* resolves it: the handler resumes the paused request or response, or sends
\* a response to the client (or, for a proxy response, hands the exchange to
\* the output check it dispatches).
C6_CompletionResolvesExchange ==
  (Completed("WaitingInputResponse") \/ Completed("WaitingOutputResponse")) =>
    \/ \E i \in 1..Len(effects) :
         effects[i].op \in {"resume_http_request", "resume_http_response", "send_http_response"}
    \/ IsSome(call)


\* The JSON object of a body keeps every field but one.
SameBut(field, new_doc, old_doc) ==
  \A f \in DOMAIN old_doc : f # field => new_doc[f] = old_doc[f]

\* C7: after an input verdict "anonymize", the session id and the restore
\* mapping of the verdict are the exchange's, an output check that is in
\* flight carries both, and, when the verdict brings anonymized_messages, the
\* body that went upstream is the original JSON object with its messages
\* replaced by them and every other field as it was.
C7_AnonymizeRewritesMessagesAndKeepsSession ==
  (IsSome(applied_in) /\ Get(applied_in).action = "anonymize") =>
    LET v == Get(applied_in) IN
    /\ session_id = v.session_id
    /\ restore_mapping = v.restore_mapping
    /\ (IsSome(call) /\ Get(call).path = OutputPath) =>
         /\ Get(call).body.session_id = v.session_id
         /\ Get(call).body.restore_mapping = v.restore_mapping
    /\ IsSome(upstream_body)
    /\ IsSome(v.anonymized_messages) =>
         /\ Get(upstream_body).kind = "json"
         /\ Get(upstream_body).doc.messages = Get(v.anonymized_messages)
         /\ SameBut("messages", Get(upstream_body).doc, orig_req_body.doc)
    /\ v.anonymized_messages = None => Get(upstream_body) = orig_req_body

C7_Witness ==
  /\ IsSome(applied_in)
  /\ Get(applied_in).action = "anonymize"
  /\ IsSome(Get(applied_in).anonymized_messages)
  /\ orig_req_body = Json("spaced", ChatDoc)
  /\ IsSome(call)
  /\ Get(call).path = OutputPath
  /\ Get(call).body.session_id = Some("sess-1")
  /\ Get(call).body.restore_mapping = Some("map-1")

\* C8: an input verdict "pass" only resumes the request: no body, header or
\* route edit is made, the phase is Initial again, and the body that goes
\* upstream is the client's, byte for byte.
C8_PassForwardsOriginalBytes ==
  /\ (InputVerdict /\ last.body.action = "pass") =>
       /\ effects = <<[op |-> "resume_http_request", arg |-> ""]>>
       /\ state = "Initial"
       /\ req_headers = last.req_headers
       /\ cluster_name = last.cluster_name
       /\ host_req_body = orig_req_body
  /\ (IsSome(applied_in) /\ Get(applied_in).action = "pass") => upstream_body = Some(orig_req_body)

C8_Witness ==
  /\ InputVerdict
  /\ last.body.action = "pass"
  /\ orig_req_body = Json("spaced", ChatDoc)
  /\ Get(config).enable_input_detection
  /\ upstream_body = Some(Json("spaced", ChatDoc))

\* C9: an input verdict "proxy_response" whose alternate body has assistant
\* content, with output checking enabled and the dispatch accepted, stores
\* the alternate response as pending, leaves an output check on that content
\* in flight and the phase WaitingOutputResponse; and as long as an alternate
\* response is pending (until the completion of that check takes it), nothing
\* has been sent to the client.
C9_ProxyResponseWaitsForOutputCheck ==
  /\ (/\ InputVerdict
      /\ last.body.action = "proxy_response"
      /\ IsSome(last.body.proxy_response)
      /\ Get(config).enable_output_detection
      /\ Get(last.body.proxy_response).body.kind = "json"
      /\ Get(last.body.proxy_response).body.doc.content \notin ContentBreaks
      /\ last.ok) =>
       /\ pending_proxy_response = last.body.proxy_response
       /\ state = "WaitingOutputResponse"
       /\ IsSome(call)
       /\ Get(call).path = OutputPath
       /\ Get(call).body.content = Get(last.body.proxy_response).body.doc.content
       /\ client_responses = <<>>
  /\ IsSome(pending_proxy_response) =>
       /\ client_responses = <<>>
       /\ ~response_sent
       /\ state = "WaitingOutputResponse"
       /\ IsSome(call) => Get(call).path = OutputPath

C9_Witness ==
  /\ InputVerdict
  /\ last.body.action = "proxy_response"
  /\ IsSome(pending_proxy_response)
  /\ Get(pending_proxy_response).body = Json("spaced", AltDoc)
  /\ state = "WaitingOutputResponse"
  /\ Get(call).body.content = "alt answer"

\* C10: an output verdict that arrives while an alternate response is pending
\* ends the exchange with exactly one response, a local one, and never
\* resumes the upstream response: the block response of a "block" that brings
\* one; the alternate response with its assistant content replaced by the
\* restored_content of a "restore" that brings one (status, content type and
\* every other field kept); the alternate response as it is otherwise.
C10_PendingAlternateGetsVerdict ==
  (OutputVerdict /\ IsSome(last.pending_proxy_response)) =>
    LET v == last.body
        p == Get(last.pending_proxy_response)
    IN
    /\ state = "Done"
    /\ response_sent
    /\ pending_proxy_response = None
    /\ Len(client_responses) = 1
    /\ client_responses[1].src = "local"
    /\ \A i \in 1..Len(effects) : effects[i].op # "resume_http_response"
    /\ upstream_body = None
    /\ (v.action = "block" /\ IsSome(v.block_response)) =>
         client_responses[1] = LocalResponse(Get(v.block_response))
    /\ (v.action = "restore" /\ IsSome(v.restored_content)) =>
         /\ client_responses[1].code = p.code
         /\ client_responses[1].content_type = p.content_type
         /\ client_responses[1].body.kind = "json"
         /\ client_responses[1].body.doc.content = Get(v.restored_content)
         /\ SameBut("content", client_responses[1].body.doc, p.body.doc)
    /\ ~(v.action = "block" /\ IsSome(v.block_response))
       /\ ~(v.action = "restore" /\ IsSome(v.restored_content)) =>
         client_responses[1] = LocalResponse(p)

C10_Witness ==
  /\ OutputVerdict
  /\ IsSome(last.pending_proxy_response)
  /\ last.body.action = "restore"
  /\ IsSome(last.body.restored_content)
  /\ response_sent
  /\ client_responses[1].body.doc.content = "contact a@b.com"

\* The alternate response of the last input verdict has no assistant content
\* to check: its body is no JSON, or choices[0].message.content is no string.
NotExtractable(body) == body.kind # "json" \/ body.doc.content \in ContentBreaks

\* C11: an input verdict "proxy_response" that brings an alternate response,
\* when output checking is disabled or the alternate body has no assistant
\* content, sends the alternate response to the client at once with its own
\* status, content type and body; no output check is dispatched, nothing is
\* left pending and the phase is Done.
C11_ProxyResponseRelayedDirectly ==
  (/\ InputVerdict
   /\ last.body.action = "proxy_response"
   /\ IsSome(last.body.proxy_response)
   /\ \/ ~Get(config).enable_output_detection
      \/ NotExtractable(Get(last.body.proxy_response).body)) =>
    /\ client_responses = <<LocalResponse(Get(last.body.proxy_response))>>
    /\ response_sent
    /\ state = "Done"
    /\ pending_proxy_response = None
    /\ call = None
    /\ n_calls[OutputPath] = 0
    /\ ~HasEffect([effects |-> effects], "dispatch_http_call")
    /\ upstream_body = None

C11_Witness ==
  /\ InputVerdict
  /\ last.body.action = "proxy_response"
  /\ IsSome(last.body.proxy_response)
  /\ ~Get(config).enable_output_detection
  /\ Get(last.body.proxy_response).body = Json("spaced", AltDoc)
  /\ client_responses = <<LocalResponse(Get(last.body.proxy_response))>>

\* C12 (as claimed): when the input check completes with status 200 and the
\* body {"action":"switch_private_model","private_model":{"model_name":
\* "alt-7b","higress_cluster":"outbound|alt"}}, the request goes upstream with
\* its model field "alt-7b", the route property is "outbound|alt" and the
\* phase is Initial.
C12_SwitchVerdictScenario ==
  (/\ Completed("WaitingInputResponse")
   /\ last.status = Some("200")
   /\ last.body = SwitchOnlyWire) =>
    /\ state = "Initial"
    /\ cluster_name = "outbound|alt"
    /\ IsSome(upstream_body)
    /\ Get(upstream_body).kind = "json"
    /\ Get(upstream_body).doc.model = "alt-7b"

\* The request headers the last callback started from carried the bypass
\* credential under its fixed name.
CarriedBypass == last.cb = "on_http_request_headers" /\ last.req_headers["x-og-bypass-token"] # Absent

\* Since the request headers were handled, no moderation call was dispatched
\* and no body was touched: what went upstream is the client's body, what the
\* client got is the upstream's body.
PassedThrough ==
  /\ n_calls[InputPath] = 0
  /\ n_calls[OutputPath] = 0
  /\ call = None
  /\ state = "Initial"
  /\ host_req_body = orig_req_body
  /\ IsSome(upstream_body) => upstream_body = Some(orig_req_body)
  /\ \A i \in 1..Len(client_responses) : client_responses[i] = UpstreamResponse(orig_resp_body)

\* C13 (as claimed): request headers that carry the bypass credential mark
\* the exchange bypassed and lose that header, and a bypassed exchange
\* dispatches no check and passes both bodies through unmodified.
C13_BypassHeaderSkipsChecks ==
  /\ CarriedBypass => (bypassed /\ req_headers["x-og-bypass-token"] = Absent)
  /\ bypassed => PassedThrough

\* C13 (amended): the same for an exchange that has a configuration; without
\* one the request headers are not looked at (the exchange passes through
\* unchecked, not marked, the header left in place).
C13_BypassHeaderSkipsChecksWhenConfigured ==
  /\ (CarriedBypass /\ IsSome(config)) => (bypassed /\ req_headers["x-og-bypass-token"] = Absent)
  /\ (CarriedBypass /\ config = None) => (~bypassed /\ req_headers = last.req_headers)
  /\ bypassed => (PassedThrough /\ req_headers["x-og-bypass-token"] = Absent)
  /\ (config = None /\ req_pos # "start") => PassedThrough

C13_Witness ==
  /\ bypassed
  /\ Get(config).enable_input_detection
  /\ Get(config).enable_output_detection
  /\ orig_req_body = Json("spaced", ChatDoc)
  /\ upstream_body = Some(orig_req_body)
  /\ resp_pos = "done"
  /\ client_responses = <<UpstreamResponse(Json("spaced", AnswerDoc))>>

\* The exchange that the rerouted request starts when it comes back through
\* the plugin: the headers and the body that went upstream, after the request
\* headers and the whole request body were handled.
Rerouted ==
  LET h == on_http_request_headers(NewExchange(config, req_headers, Get(upstream_body)))
  IN  on_http_request_body(h, TRUE, TRUE)

\* C14 (as claimed): a request that went upstream after a verdict
\* "switch_private_model" that brought a bypass_token (set under the
\* verdict's bypass_header, or under the default name without one) is taken
\* as bypassed by the exchange it starts, which dispatches no input check.
C14_ReroutedRequestIsBypassed ==
  (/\ InputVerdict
   /\ last.body.action = "switch_private_model"
   /\ IsSome(last.body.bypass_token)
   /\ IsSome(upstream_body)) =>
    /\ Rerouted.bypassed
    /\ Rerouted.call = None

\* C15: when the input verdict was "anonymize" with a restore_mapping and the
\* output check of the upstream response answers "restore" with a
\* restored_content, the client gets the upstream response with
\* choices[0].message.content equal to that content and every other field as
\* the upstream sent it, and the output check carried the restore_mapping of
\* the input verdict.
C15_AnonymizeRestoreRoundTrip ==
  (/\ OutputVerdict
   /\ last.pending_proxy_response = None
   /\ last.body.action = "restore"
   /\ IsSome(last.body.restored_content)
   /\ IsSome(applied_in)
   /\ Get(applied_in).action = "anonymize"
   /\ IsSome(Get(applied_in).restore_mapping)) =>
    /\ Len(client_responses) = 1
    /\ client_responses[1].src = "upstream"
    /\ client_responses[1].body.kind = "json"
    /\ client_responses[1].body.doc.content = Get(last.body.restored_content)
    /\ SameBut("content", client_responses[1].body.doc, orig_resp_body.doc)
    /\ Get(last.call).path = OutputPath
    /\ Get(last.call).body.restore_mapping = Get(applied_in).restore_mapping
    /\ state = "Done"

C15_Witness ==
  /\ OutputVerdict
  /\ last.body.action = "restore"
  /\ IsSome(applied_in)
  /\ Get(applied_in).action = "anonymize"
  /\ Get(applied_in).restore_mapping = Some("map-1")
  /\ Get(last.call).body.restore_mapping = Some("map-1")
  /\ orig_resp_body = Json("compact", [AnswerDoc EXCEPT !.content = "contact __EMAIL_1__"])
  /\ client_responses = <<UpstreamResponse(Json("compact", [AnswerDoc EXCEPT !.content = "contact a@b.com"]))>>

\* The body is the JSON object of old with choices[0].message.content
\* replaced by content and every other field kept.
ContentReplaced(body, old, content) ==
  /\ body.kind = "json"
  /\ body.doc.content = content
  /\ SameBut("content", body.doc, old.doc)

\* C16: an output verdict on the upstream response (no alternate response
\* pending) resumes that response exactly once and ends in Done; the client
\* gets the block body for a "block" that brings a block_response, the
\* upstream body with its assistant content replaced for a "restore" or an
\* "anonymize" that brings the new content, and the upstream body byte for
\* byte otherwise ("pass").  With "pass" on both sides the client receives
\* the upstream body unchanged.
C16_OutputVerdictOnUpstreamResponse ==
  /\ (OutputVerdict /\ last.pending_proxy_response = None) =>
       LET v == last.body IN
       /\ state = "Done"
       /\ Len(client_responses) = 1
       /\ client_responses[1].src = "upstream"
       /\ effects[Len(effects)].op = "resume_http_response"
       /\ (v.action = "block" /\ IsSome(v.block_response)) =>
            client_responses[1].body = Get(v.block_response).body
       /\ (v.action = "restore" /\ IsSome(v.restored_content)) =>
            ContentReplaced(client_responses[1].body, orig_resp_body, Get(v.restored_content))
       /\ (v.action = "anonymize" /\ IsSome(v.anonymized_content)) =>
            ContentReplaced(client_responses[1].body, orig_resp_body, Get(v.anonymized_content))
       /\ v.action \notin {"block", "restore", "anonymize"} =>
            /\ client_responses[1].body = orig_resp_body
            /\ effects = <<[op |-> "resume_http_response", arg |-> ""]>>
  /\ (/\ IsSome(applied_in) /\ Get(applied_in).action = "pass"
      /\ IsSome(applied_out) /\ Get(applied_out).action = "pass") =>
       client_responses = <<UpstreamResponse(orig_resp_body)>>

C16_Witness ==
  /\ OutputVerdict
  /\ last.pending_proxy_response = None
  /\ last.body.action = "block"
  /\ IsSome(applied_in)
  /\ Get(applied_in).action = "pass"
  /\ orig_resp_body = Json("spaced", AnswerDoc)
  /\ client_responses = <<UpstreamResponse(OutBlockResp.body)>>

\* C17: between callbacks an alternate response is pending only in phase
\* WaitingOutputResponse, and a completion that reads the pending response (one
\* that comes with a status) leaves none pending and has sent it, or what the
\* verdict made of it, as the one response of the exchange.
C17_PendingOnlyWhileWaitingOutput ==
  /\ IsSome(pending_proxy_response) => state = "WaitingOutputResponse"
  /\ (Completed("WaitingOutputResponse") /\ IsSome(last.status) /\ IsSome(last.pending_proxy_response)) =>
       /\ pending_proxy_response = None
       /\ Len(client_responses) = 1
       /\ client_responses[1].src = "local"
  /\ (InputVerdict /\ last.body.action = "proxy_response" /\ ~last.ok) => pending_proxy_response = None

C17_Witness ==
  /\ Completed("WaitingOutputResponse")
  /\ last.status = Some("500")
  /\ IsSome(last.pending_proxy_response)
  /\ pending_proxy_response = None
  /\ state = "Done"
  /\ client_responses = <<LocalResponse(Get(last.pending_proxy_response))>>

\* C18 (as claimed): the exchange never holds a session id and a restore
\* mapping at once, and no output check carries both.
C18_SessionOrMappingNotBoth ==
  /\ ~(IsSome(session_id) /\ IsSome(restore_mapping))
  /\ (IsSome(call) /\ Get(call).path = OutputPath) =>
       ~(IsSome(Get(call).body.session_id) /\ IsSome(Get(call).body.restore_mapping))

\* C19 (as claimed): a callback that starts in phase Done leaves the phase
\* Done, and a request body or response body callback that starts in Done
\* reads no buffer, dispatches no call and rewrites no body.
C19_DoneIsFinal ==
  last.state = "Done" =>
    /\ state = "Done"
    /\ last.cb \in {"on_http_request_body", "on_http_response_body"} =>
         /\ effects = <<>>
         /\ request_body = last.request_body
         /\ response_body = last.response_body
         /\ call = last.call
         /\ host_req_body = last.host_req_body
         /\ host_resp_body = last.host_resp_body

\* C20 (as claimed): an exchange dispatches at most one input check and at
\* most one output check, whatever callbacks arrive, and the completion of a
\* failed call resolves its phase at once (the request or the response is
\* resumed, or a response is sent) without dispatching anything.
C20_NoRetry ==
  /\ n_calls[InputPath] <= 1
  /\ n_calls[OutputPath] <= 1
  /\ (InputFailure \/ OutputFailure) =>
       /\ \A i \in 1..Len(effects) : effects[i].op # "dispatch_http_call"
       /\ \E i \in 1..Len(effects) :
            effects[i].op \in {"resume_http_request", "resume_http_response", "send_http_response"}

\* What the completion of the call in flight makes of the exchange, by the
\* status and the body it comes with.
AfterCompletion(status, body) == on_http_call_response([Self EXCEPT !.call = None], status, body, TRUE)

\* Two outcomes agree in what was done (the host calls made, what went
\* upstream, what the client got) and in the fields left behind.
SameOutcome(a, b) ==
  /\ a.effects = b.effects
  /\ a.upstream_body = b.upstream_body
  /\ a.client_responses = b.client_responses
  /\ a.state = b.state
  /\ a.session_id = b.session_id
  /\ a.restore_mapping = b.restore_mapping
  /\ a.pending_proxy_response = b.pending_proxy_response
  /\ a.response_sent = b.response_sent

\* C21 (as claimed): whenever a moderation call is in flight, its completion
\* with status 200 and a body that does not decode has the same outcome as
\* its completion with a non-2xx status.
C21_DecodeFailureAsTransportFailure ==
  IsSome(call) =>
    SameOutcome(AfterCompletion(Some("200"), BadWire), AfterCompletion(Some("500"), BadWire))

\* The statuses of the model that are 2xx
Is2xx(status) == status \in {Some("200"), Some("201")}

\* C22 (as claimed): the completion of a call with a 2xx status and a body
\* that decodes has the outcome the verdict has with status 200 (the verdict
\* is applied), and a completion with any other status fails open: the
\* request is resumed unmodified, or the pending alternate response is
\* relayed, or the upstream response is resumed unmodified.
C22_FailureIffNon2xx ==
  /\ IsSome(call) =>
       \A w \in (IF Get(call).path = InputPath THEN InputWires ELSE OutputWires) :
         (IF Get(call).path = InputPath THEN IsSome(DecodeInput(w)) ELSE IsSome(DecodeOutput(w))) =>
           SameOutcome(AfterCompletion(Some("201"), w), AfterCompletion(Some("200"), w))
  /\ (Completed("WaitingInputResponse") /\ IsSome(last.status) /\ ~Is2xx(last.status)) =>
       upstream_body = Some(last.host_req_body)
  /\ (Completed("WaitingOutputResponse") /\ IsSome(last.status) /\ ~Is2xx(last.status)) =>
       client_responses = <<IF IsSome(last.pending_proxy_response)
                            THEN LocalResponse(Get(last.pending_proxy_response))
                            ELSE UpstreamResponse(last.host_resp_body)>>

TargetMissing(fn, body) ==
  \/ body.kind # "json"
  \/ IF fn = "rebuild_request_body" THEN body.doc.messages = Absent
     ELSE body.doc.content \in {NoChoices, NoMessage, NoContent}

\* C24 (as claimed): a body rewrite function given a body that is not JSON,
\* or a JSON body without the field it writes, returns the bytes it was
\* given.
C24_RewriteWithoutTargetKeepsBytes ==
  (rewrite # <<>> /\ IsSome(rewrite.out) /\ TargetMissing(rewrite.fn, rewrite.body)) =>
    Get(rewrite.out) = rewrite.body

\* The actions each phase knows, "pass" apart
KnownInputActions == {"block", "replace", "anonymize", "proxy_response", "switch_private_model"}

KnownOutputActions == {"block", "anonymize", "restore"}

\* C25: a decoded verdict whose action is none of the known ones is handled
\* as "pass": in the input phase the request is only resumed, with the
\* client's body and headers, and the phase is Initial; in the output phase
\* the upstream response is resumed with its body as it came, or the pending
\* alternate response is sent as it is, and the phase is Done.
C25_UnknownActionIsPass ==
  /\ (InputVerdict /\ last.body.action \notin KnownInputActions \cup {"pass"}) =>
       /\ effects = <<[op |-> "resume_http_request", arg |-> ""]>>
       /\ state = "Initial"
       /\ upstream_body = Some(orig_req_body)
       /\ req_headers = last.req_headers
       /\ cluster_name = last.cluster_name
  /\ (OutputVerdict /\ last.body.action \notin KnownOutputActions \cup {"pass"}) =>
       /\ state = "Done"
       /\ client_responses = <<IF IsSome(last.pending_proxy_response)
                                THEN LocalResponse(Get(last.pending_proxy_response))
                                ELSE UpstreamResponse(orig_resp_body)>>

C25_Witness ==
  /\ InputVerdict
  /\ last.body.action = "audit"
  /\ orig_req_body = Json("spaced", ChatDoc)
  /\ upstream_body = Some(Json("spaced", ChatDoc))
  /\ state = "Initial"

\* C26 (as claimed): a call response with status 200 whose body is a JSON
\* object with an action string decodes, whichever of its other fields are
\* missing: the verdict is the one applied.
C26_MissingFieldsStillDecode ==
  /\ (Completed("WaitingInputResponse") /\ last.status = Some("200") /\ last.body.json) =>
       /\ IsSome(DecodeInput(last.body))
       /\ applied_in = Some(last.body)
  /\ (Completed("WaitingOutputResponse") /\ last.status = Some("200") /\ last.body.json) =>
       /\ IsSome(DecodeOutput(last.body))
       /\ applied_out = Some(last.body)

\* The request headers after the edits, made in the order p of their places
\* in the list.
RECURSIVE EditedHeaders(_, _, _)
EditedHeaders(headers, edits, p) ==
  IF p = <<>> THEN headers
  ELSE EditedHeaders([headers EXCEPT ![HeaderKey(edits[Head(p)][1])] = edits[Head(p)][2]], edits, Tail(p))

Orders(n) == {p \in [1..n -> 1..n] : \A i, j \in 1..n : p[i] = p[j] => i = j}

\* C27 (as claimed): the request headers a "switch_private_model" verdict
\* leaves are those its header edits give in any order, and making the edits
\* a second time changes nothing.
C27_SwitchHeaderEditsCommute ==
  (InputVerdict /\ last.body.action = "switch_private_model") =>
    LET edits == SwitchHeaderEdits(last.body) IN
    /\ \A p \in Orders(Len(edits)) : EditedHeaders(last.req_headers, edits, p) = req_headers
    /\ \A p \in Orders(Len(edits)) : EditedHeaders(req_headers, edits, p) = req_headers

\* C28: in every callback that sends a local response (the block or replace
\* response of an input verdict among them), the host call that clears the
\* buffered request body comes before the host call that sends the response,
\* and the buffer is empty when the response goes out.
C28_ClearBeforeSend ==
  \A i \in 1..Len(effects) :
    effects[i].op = "send_http_response" =>
      /\ \E j \in 1..(i - 1) : effects[j].op = "set_http_request_body"
      /\ host_req_body = Empty

C28_Witness ==
  /\ InputVerdict
  /\ last.body.action = "replace"
  /\ last.host_req_body = Json("spaced", ChatDoc)
  /\ effects = <<[op |-> "set_http_request_body", arg |-> ""], [op |-> "send_http_response", arg |-> ""]>>
  /\ client_responses = <<LocalResponse(ReplaceResp)>>

\* The last callback was the end of the response body.
ResponseBodyComplete == last.cb = "on_http_response_body" /\ last.end_of_stream

\* The conditions under which the end of the response body calls for an
\* output check, in the state the callback started from.
OutputCheckDue ==
  /\ ~last.bypassed
  /\ last.state # "Done"
  /\ IsSome(config)
  /\ ~NotExtractable(last.host_resp_body)
  /\ \/ Get(config).enable_output_detection
     \/ IsSome(last.session_id)
     \/ IsSome(last.restore_mapping)

\* C29: at the end of the response body an output check on the assistant
\* content is dispatched exactly when the exchange is not bypassed, not Done,
\* has a configuration, the content is extractable, and output checking is
\* enabled or a session id or restore mapping is stored; the accepted
\* dispatch leaves the phase WaitingOutputResponse; when no check is due the
\* callback makes no host call, leaves the phase alone, and the response
\* buffer is as it came.
C29_OutputCheckDispatchedIff ==
  ResponseBodyComplete =>
    /\ HasEffect([effects |-> effects], "dispatch_http_call") <=> OutputCheckDue
    /\ (OutputCheckDue /\ last.ok) =>
         /\ state = "WaitingOutputResponse"
         /\ IsSome(call)
         /\ Get(call).path = OutputPath
         /\ Get(call).body.content = last.host_resp_body.doc.content
         /\ client_responses = last.client_responses
    /\ ~OutputCheckDue =>
         /\ effects = <<>>
         /\ state = last.state
         /\ call = last.call
         /\ host_resp_body = orig_resp_body
         /\ last.client_responses = <<>> => client_responses = <<UpstreamResponse(orig_resp_body)>>

C29_Witness ==
  /\ ResponseBodyComplete
  /\ IsSome(config)
  /\ IsSome(call)
  /\ ~Get(config).enable_output_detection
  /\ last.session_id = Some("sess-1")
  /\ state = "WaitingOutputResponse"
  /\ Get(call).body.content = "contact __EMAIL_1__"

\* The last callback was the end of the request body.
RequestBodyComplete == last.cb = "on_http_request_body" /\ last.end_of_stream

\* The conditions under which the end of the request body calls for an input
\* check: a configuration with input checking enabled, no bypass, and a JSON
\* body with a messages array.
InputCheckDue ==
  /\ ~last.bypassed
  /\ IsSome(config)
  /\ Get(config).enable_input_detection
  /\ last.host_req_body.kind = "json"
  /\ last.host_req_body.doc.messages \notin {Absent, "#non-array"}

\* C30: at the end of the request body an input check is dispatched only
\* when input checking is enabled, the exchange is not bypassed and the body
\* has a messages array, and the accepted dispatch suspends the request in
\* phase WaitingInputResponse; otherwise (body empty, not JSON, without
\* messages, checking disabled, bypassed) no call is made, the phase stays
\* as it was and the request goes upstream with the client's bytes.
C30_InputCheckDispatchedOnlyIf ==
  RequestBodyComplete =>
    /\ HasEffect([effects |-> effects], "dispatch_http_call") <=> InputCheckDue
    /\ (InputCheckDue /\ last.ok) =>
         /\ state = "WaitingInputResponse"
         /\ IsSome(call)
         /\ Get(call).path = InputPath
         /\ Get(call).body.messages = last.host_req_body.doc.messages
         /\ upstream_body = last.upstream_body
         /\ ret = "StopIterationAndBuffer"
    /\ ~InputCheckDue =>
         /\ effects = <<>>
         /\ state = last.state
         /\ call = last.call
         /\ host_req_body = last.host_req_body
         /\ req_headers = last.req_headers
         /\ last.upstream_body = None => upstream_body = Some(last.host_req_body)

C30_Witness ==
  /\ RequestBodyComplete
  /\ IsSome(config)
  /\ Get(config).enable_input_detection
  /\ ~last.bypassed
  /\ orig_req_body = Json("compact", [ChatDoc EXCEPT !.messages = "#non-array"])
  /\ upstream_body = Some(orig_req_body)
  /\ state = "Initial"
  /\ call = None

\* C31: an exchange without a configuration is never checked, whatever
\* callbacks arrive and in whatever order: no moderation call is dispatched
\* or in flight, no callback writes a body or sends a response, both buffers
\* hold what the client and the upstream sent, what goes upstream is the
\* client's body, and the phase is Initial.
C31_NoConfigurationPassesThrough ==
  config = None =>
    /\ state = "Initial"
    /\ call = None
    /\ n_calls[InputPath] = 0
    /\ n_calls[OutputPath] = 0
    /\ ~response_sent
    /\ ~LocalSent(client_responses)
    /\ pending_proxy_response = None
    /\ \A i \in 1..Len(effects) :
         effects[i].op \notin {"dispatch_http_call", "set_http_request_body",
                               "set_http_response_body", "send_http_response"}
    /\ host_req_body = orig_req_body
    /\ host_resp_body = orig_resp_body
    /\ IsSome(upstream_body) => upstream_body = Some(orig_req_body)

C31_Witness ==
  /\ config = None
  /\ orig_req_body = Json("spaced", ChatDoc)
  /\ upstream_body = Some(orig_req_body)
  /\ last.cb = "on_http_response_body"
  /\ last.end_of_stream
  /\ client_responses = <<UpstreamResponse(Json("spaced", AnswerDoc))>>

\* The last callback was a body chunk that is not the last of its stream.
EarlierChunk == last.cb \in {"on_http_request_body", "on_http_response_body"} /\ ~last.end_of_stream

\* Such a callback made no host call and left the buffers of the connector,
\* the phase and the call in flight as they were.
ChunkLeftAlone ==
  /\ effects = <<>>
  /\ request_body = last.request_body
  /\ response_body = last.response_body
  /\ state = last.state
  /\ call = last.call

\* request_body and response_body change only in the callback that carries
\* the end of their stream.
BuffersFilledAtEnd ==
  /\ request_body # last.request_body => (last.cb = "on_http_request_body" /\ last.end_of_stream)
  /\ response_body # last.response_body => (last.cb = "on_http_response_body" /\ last.end_of_stream)

\* C32 (as claimed): every body chunk callback before the end of stream asks
\* the host to keep buffering, reads no body, changes no phase and dispatches
\* no call.
C32_ChunksOnlyBuffer ==
  /\ BuffersFilledAtEnd
  /\ EarlierChunk => (ChunkLeftAlone /\ ret = "StopIterationAndBuffer")

\* C32 (amended): the same, but the answer to the host is Continue, not
\* buffering, for a request chunk of a bypassed exchange and for a response
\* chunk of an exchange that is bypassed, Done or has sent a local response.
C32_ChunksOnlyBufferUnlessSkipped ==
  /\ BuffersFilledAtEnd
  /\ EarlierChunk =>
       /\ ChunkLeftAlone
       /\ LET skipped == IF last.cb = "on_http_request_body" THEN last.bypassed
                         ELSE last.bypassed \/ last.state = "Done" \/ last.response_sent
          IN  ret = IF skipped THEN "Continue" ELSE "StopIterationAndBuffer"

C32_Witness ==
  /\ EarlierChunk
  /\ last.cb = "on_http_response_body"
  /\ IsSome(config)
  /\ Get(config).enable_output_detection
  /\ host_resp_body = Json("spaced", AnswerDoc)
  /\ response_body = Empty
  /\ ret = "StopIterationAndBuffer"
  /\ state = "Initial"

\* C33 (as claimed): session_id and restore_mapping are set only as the
\* result of an input verdict "anonymize"; after a verdict of any other
\* action, and before any verdict, they are unset.
C33_SessionOnlyFromAnonymize ==
  (IsSome(session_id) \/ IsSome(restore_mapping)) =>
    (IsSome(applied_in) /\ Get(applied_in).action = "anonymize")

\* The last callback asked the host to dispatch a call and the host refused.
DispatchFailed == \E i \in 1..Len(effects) : effects[i] = [op |-> "dispatch_http_call", arg |-> "Err"]

\* C34: when the host refuses the dispatch of a call the exchange is not
\* suspended. At the end of the request body the request goes on as the
\* client sent it, in phase Initial; at the end of the response body the
\* response goes on as upstream sent it; for an input verdict "proxy_response"
\* the alternate response just stored is taken back and sent to the client as
\* it is, in phase Done.
C34_DispatchFailureDoesNotSuspend ==
  DispatchFailed =>
    /\ call = None
    /\ \/ /\ RequestBodyComplete
          /\ ret = "Continue"
          /\ state = "Initial"
          /\ Len(effects) = 1
          /\ host_req_body = orig_req_body
          /\ upstream_body = Some(orig_req_body)
          /\ client_responses = <<>>
       \/ /\ ResponseBodyComplete
          /\ ret = "Continue"
          /\ state = last.state
          /\ Len(effects) = 1
          /\ host_resp_body = orig_resp_body
          /\ client_responses = <<UpstreamResponse(orig_resp_body)>>
       \/ /\ InputVerdict
          /\ IsSome(applied_in)
          /\ Get(applied_in).action = "proxy_response"
          /\ IsSome(Get(applied_in).proxy_response)
          /\ last.pending_proxy_response = None
          /\ pending_proxy_response = None
          /\ client_responses = <<LocalResponse(Get(Get(applied_in).proxy_response))>>
          /\ response_sent
          /\ state = "Done"
          /\ upstream_body = None

C34_Witness ==
  /\ DispatchFailed
  /\ InputVerdict
  /\ Get(applied_in).action = "proxy_response"
  /\ client_responses = <<LocalResponse(Get(Get(applied_in).proxy_response))>>
  /\ pending_proxy_response = None
  /\ state = "Done"

\* C35 (as claimed): in every reachable state, whatever the sequence of
\* callbacks, response_sent implies that the phase is Done.
C35_ResponseSentImpliesDone == response_sent => state = "Done"

\* An input verdict "proxy_response" that carries an alternate response was
\* received.
ProxyVerdictReceived ==
  /\ IsSome(applied_in)
  /\ Get(applied_in).action = "proxy_response"
  /\ IsSome(Get(applied_in).proxy_response)

\* C36: once an input verdict "proxy_response" with an alternate response was
\* received, the original request is never resumed nor sent upstream, whatever
\* becomes of the output check on the alternate response.
C36_ProxiedRequestNeverForwarded ==
  ProxyVerdictReceived =>
    /\ upstream_body = None
    /\ \A i \in 1..Len(effects) : effects[i].op # "resume_http_request"
    /\ \A i \in 1..Len(client_responses) : client_responses[i].src = "local"

C36_Witness ==
  /\ ProxyVerdictReceived
  /\ OutputFailure
  /\ last.status = Some("500")
  /\ upstream_body = None
  /\ client_responses = <<LocalResponse(Get(Get(applied_in).proxy_response))>>

\* C37 (as claimed): after an output verdict "anonymize" that brings an
\* anonymized_content, the assistant content the client gets is that content,
\* for the upstream response and for a pending alternate response alike.
C37_OutputAnonymizeDelivered ==
  (OutputVerdict /\ last.body.action = "anonymize" /\ IsSome(last.body.anonymized_content)) =>
    /\ Len(client_responses) = 1
    /\ client_responses[1].body.kind = "json"
    /\ client_responses[1].body.doc.content = Get(last.body.anonymized_content)

\* An input verdict "block", "replace" or "proxy_response" was received
\* without the response it should bring.
PayloadMissing ==
  /\ IsSome(applied_in)
  /\ \/ Get(applied_in).action = "block" /\ Get(applied_in).block_response = None
     \/ Get(applied_in).action = "replace" /\ Get(applied_in).replace_response = None
     \/ Get(applied_in).action = "proxy_response" /\ Get(applied_in).proxy_response = None

\* C38: an input verdict "block", "replace" or "proxy_response" whose payload
\* is missing fails closed: the phase is Done and the original request is
\* never resumed nor sent upstream.
C38_MissingPayloadFailsClosed ==
  PayloadMissing =>
    /\ state = "Done"
    /\ upstream_body = None
    /\ call = None
    /\ \A i \in 1..Len(effects) : effects[i].op # "resume_http_request"
    /\ \A i \in 1..Len(client_responses) : client_responses[i].src # "upstream"

C38_Witness ==
  /\ PayloadMissing
  /\ Get(applied_in).action = "replace"
  /\ InputVerdict
  /\ ret = "Pause"
  /\ state = "Done"
  /\ upstream_body = None

\* The input check came back with a status other than 200, or with status
\* 200 and a body that does not decode to a verdict.
InputFailOpen ==
  /\ Completed("WaitingInputResponse")
  /\ IsSome(last.status)
  /\ last.status # Some("200") \/ DecodeInput(last.body) = None

\* C39: the handling of an input check that fails open leaves session_id,
\* restore_mapping, pending_proxy_response, response_sent and the buffered
\* request body as they were, changes no header and no body, and makes one
\* host call only, the resume of the request.
C39_InputFailOpenFrame ==
  InputFailOpen =>
    /\ session_id = last.session_id
    /\ restore_mapping = last.restore_mapping
    /\ pending_proxy_response = last.pending_proxy_response
    /\ response_sent = last.response_sent
    /\ request_body = last.request_body
    /\ host_req_body = last.host_req_body
    /\ host_resp_body = last.host_resp_body
    /\ req_headers = last.req_headers
    /\ cluster_name = last.cluster_name
    /\ client_responses = last.client_responses
    /\ call = None
    /\ effects = <<[op |-> "resume_http_request", arg |-> ""]>>
    /\ upstream_body = Some(last.host_req_body)

C39_Witness ==
  /\ InputFailOpen
  /\ last.status = Some("200")
  /\ request_body = Json("spaced", ChatDoc)
  /\ ~is_empty(last.host_req_body)
  /\ upstream_body = Some(orig_req_body)
  /\ effects = <<[op |-> "resume_http_request", arg |-> ""]>>

\* The values a bypass credential may have, one of them never issued by the
\* moderation service.
TokenValues == {"tok-1", "forged", "never-issued"}

\* The exchange s with the value of its bypass credential, if it has one,
\* replaced by v.
WithToken(s, v) ==
  IF s.req_headers["x-og-bypass-token"] = Absent THEN s
  ELSE [s EXCEPT !.req_headers["x-og-bypass-token"] = v]

\* Two exchanges are the same but for the value of the bypass credential.
SameButToken(a, b) == WithToken(a, "*") = WithToken(b, "*")

\* C40: the bypass decision depends on the presence of the bypass header only.
\* An exchange and the exchange that differs from it in the value of the
\* credential alone answer every callback alike: same returned action, same
\* host calls, same fields afterwards but for that value. And a configured
\* exchange whose request headers carry the credential, whatever its value,
\* is bypassed: the header is removed and no check is ever dispatched.
C40_BypassIgnoresTokenValue ==
  /\ \A v \in TokenValues :
       LET a == Self
           b == WithToken(Self, v)
       IN  /\ SameButToken(on_http_request_headers(a), on_http_request_headers(b))
           /\ SameButToken(on_http_response_headers(a), on_http_response_headers(b))
           /\ \A end_of_stream \in BOOLEAN, ok \in BOOLEAN :
                /\ SameButToken(on_http_request_body(a, end_of_stream, ok),
                                on_http_request_body(b, end_of_stream, ok))
                /\ SameButToken(on_http_response_body(a, end_of_stream, ok),
                                on_http_response_body(b, end_of_stream, ok))
           /\ IsSome(call) =>
                \A w \in Answers(InputWires, OutputWires), ok \in BOOLEAN :
                  SameButToken(on_http_call_response([a EXCEPT !.call = None], w[1], w[2], ok),
                               on_http_call_response([b EXCEPT !.call = None], w[1], w[2], ok))
  /\ (last.cb = "on_http_request_headers" /\ IsSome(config)
      /\ last.req_headers["x-og-bypass-token"] # Absent) =>
       /\ bypassed
       /\ ret = "Continue"
       /\ req_headers = [last.req_headers EXCEPT !["x-og-bypass-token"] = Absent]
  /\ bypassed => (call = None /\ n_calls[InputPath] = 0 /\ n_calls[OutputPath] = 0)

C40_Witness ==
  /\ last.cb = "on_http_request_headers"
  /\ IsSome(config)
  /\ last.req_headers["x-og-bypass-token"] = "forged"
  /\ bypassed
  /\ req_headers["x-og-bypass-token"] = Absent
  /\ on_http_request_headers([Self EXCEPT !.req_headers = last.req_headers, !.bypassed = FALSE]).bypassed

====
